---- MODULE Spec2Model ----
(***************************************************************************)
(* Model of the notification subsystem of chromium-dashboard               *)
(* (internals/notifier.py): the recipient-reason aggregator                *)
(* (accumulate_reasons, convert_reasons_to_task, apply_subscription_rules, *)
(* make_*_email) over a small datastore.                                   *)
(***************************************************************************)
EXTENDS Integers, Sequences, FiniteSets, TLC

(* ------------------------------ bounds -------------------------------- *)
\* Number of records/list entries the datastore holds beyond the baseline.
MaxEntries == 2
\* Longest reasons list / address list handed to the unit-level calls.
MaxLen == 3
\* Tasks enqueued or logged after which no further handler run is explored.
MaxQueue == 1
\* AppUser entities in a store of users.
MaxUsers == 2
\* set_star calls of one user among the interleaved calls.
MaxCalls == 2

(* --------------------------- program constants ------------------------ *)
None == "None"

WEBVIEW_RULE_REASON ==
  "This feature has an android milestone, but not a webview milestone"
IWA_RULE_REASON == "You are subscribed to all IWA features"
WEBVIEW_RULE_ADDRS_INIT == <<"webview-leads-external@google.com">>
IWA_RULE_ADDRS_INIT == <<"iwa-dev@chromium.org">>

OWNER_REASON == "You are listed as an owner of this feature"
EDITOR_REASON == "You are listed as an editor of this feature"
CC_REASON == "You are CC'd on this feature"
DEVREL_REASON == "You are a devrel contact for this feature."
WATCHER_REASON == "You are watching all feature changes"
COMPONENT_OWNER_REASON == "You are an owner of this feature's component"
COMPONENT_SUBSCRIBER_REASON == "You subscribe to this feature's component"
STARRER_REASON == "You starred this feature"
ASSIGNED_REASON == "This review is assigned to you"
REVIEWER_REASON == "You are a reviewer for this type of gate"
OLD_ASSIGNEE_REASON == "The review was previously assigned to you"
NEW_ASSIGNEE_REASON == "The review is now assigned to you"

\* core_enums values used by the tests of this module.
IWA == "IWA"
MISC == "MISC"
STAGE_BLINK_ORIGIN_TRIAL == 150
STAGE_BLINK_EXTEND_ORIGIN_TRIAL == 151
STAGE_BLINK_SHIPPING == 160
STAGE_FAST_SHIPPING == 260
FEATURE_TYPE_INCUBATE_ID == 0
FEATURE_TYPE_EXISTING_ID == 1
SHIPPED_ANDROID_MILESTONE == "shipped_android_milestone"
OTHER_FIELD == "some_other_field"

(* ---------------------- strings and their order ----------------------- *)
\* Python compares str by code point; TLA+ strings are unordered, so the
\* order of the strings the model uses is tabulated here, ascending.
ReasonOrder == <<
  NEW_ASSIGNEE_REASON, OLD_ASSIGNEE_REASON, WEBVIEW_RULE_REASON,
  ASSIGNED_REASON, CC_REASON, DEVREL_REASON, REVIEWER_REASON,
  COMPONENT_OWNER_REASON, EDITOR_REASON, OWNER_REASON, IWA_RULE_REASON,
  WATCHER_REASON, STARRER_REASON, COMPONENT_SUBSCRIBER_REASON >>

AddrOrder == <<
  "iwa-dev@chromium.org", "owner_1@example.com",
  "webview-leads-external@google.com" >>

\* The addresses the datastore lists draw from.
Addrs == {"iwa-dev@chromium.org", "owner_1@example.com"}
AllAddrs == Addrs \cup {WEBVIEW_RULE_ADDRS_INIT[1], IWA_RULE_ADDRS_INIT[1]}
AllReasons == {ReasonOrder[i] : i \in 1..Len(ReasonOrder)}

Rank(order, s) == CHOOSE i \in 1..Len(order) : order[i] = s
StrLess(order, s, t) == Rank(order, s) < Rank(order, t)

Range(seq) == {seq[i] : i \in 1..Len(seq)}

\* All sequences over S of length at most n.
BoundedSeq(S, n) == UNION {[1..k -> S] : k \in 0..n}

\* Number of occurrences of x in seq.
RECURSIVE Count(_, _)
Count(seq, x) ==
  IF seq = <<>> THEN 0
  ELSE (IF seq[1] = x THEN 1 ELSE 0) + Count(Tail(seq), x)

(* --------------------------- python builtins --------------------------- *)
\* sorted() of a list of dict items: the keys are unique, so the tuples
\* compare by key.  Insertion sort, stable.
RECURSIVE InsertByKey(_, _, _)
InsertByKey(sortedSeq, item, order) ==
  IF sortedSeq = <<>> THEN <<item>>
  ELSE IF StrLess(order, item[1], sortedSeq[1][1])
       THEN <<item>> \o sortedSeq
       ELSE <<sortedSeq[1]>> \o InsertByKey(Tail(sortedSeq), item, order)

RECURSIVE SortedItems(_, _)
SortedItems(items, order) ==
  IF items = <<>> THEN <<>>
  ELSE InsertByKey(SortedItems(SubSeq(items, 1, Len(items) - 1), order),
                   items[Len(items)], order)

\* sorted(set(xs)) of a list of strings.
RECURSIVE SortedSet(_, _)
SortedSet(S, order) ==
  IF S = {} THEN <<>>
  ELSE LET m == CHOOSE x \in S : \A y \in S : Rank(order, x) <= Rank(order, y)
       IN <<m>> \o SortedSet(S \ {m}, order)

(* ------------------- the recipient reasons table ---------------------- *)
\* addr_reasons is a collections.defaultdict(list): an insertion-ordered
\* mapping, modelled as the sequence of its items <<addr, reasons>>.
HasKey(table, key) == \E i \in 1..Len(table) : table[i][1] = key
Keys(table) == {table[i][1] : i \in 1..Len(table)}
Get(table, key) ==
  IF HasKey(table, key)
  THEN table[CHOOSE i \in 1..Len(table) : table[i][1] = key][2]
  ELSE <<>>

\* AppendReason, were it to skip a reason the address already has.
AppendReasonDedup(addr_reasons, email, reason) ==
  IF HasKey(addr_reasons, email)
  THEN [i \in 1..Len(addr_reasons) |->
          IF addr_reasons[i][1] = email
             /\ reason \notin Range(addr_reasons[i][2])
          THEN <<email, Append(addr_reasons[i][2], reason)>>
          ELSE addr_reasons[i]]
  ELSE Append(addr_reasons, <<email, <<reason>> >>)

\* addr_reasons[email].append(reason)
AppendReason(addr_reasons, email, reason) ==
  IF HasKey(addr_reasons, email)
  THEN [i \in 1..Len(addr_reasons) |->
          IF addr_reasons[i][1] = email
          THEN <<email, Append(addr_reasons[i][2], reason)>>
          ELSE addr_reasons[i]]
  ELSE Append(addr_reasons, <<email, <<reason>> >>)

RECURSIVE AccumulateLoop(_, _, _)
AccumulateLoop(addr_reasons, addr_list, reason) ==
  IF addr_list = <<>> THEN addr_reasons
  ELSE AccumulateLoop(AppendReason(addr_reasons, Head(addr_list), reason),
                      Tail(addr_list), reason)

accumulate_reasons(addr_reasons, addr_list, reason) ==
  AccumulateLoop(addr_reasons, addr_list, reason)

(* ------------------------ convert_reasons_to_task --------------------- *)
Line(tag, text) == [tag |-> tag, text |-> text]

\* ReasonLines, were it to iterate over reasons instead of
\* sorted(set(reasons)).
ReasonLinesUnsorted(reasons) ==
  [i \in 1..Len(reasons) |-> Line("li", reasons[i])]

\* '<li>%s</li>' % reason for reason in sorted(set(reasons))
ReasonLines(reasons) ==
  LET rs == SortedSet(Range(reasons), ReasonOrder)
  IN [i \in 1..Len(rs) |-> Line("li", rs[i])]

FooterLines(reasons) ==
  <<Line("p", "You are receiving this email because:"), Line("ul", "")>>
  \o ReasonLines(reasons)
  \o <<Line("/ul", ""), Line("a", "Unsubscribe")>>

\* permissions.can_create_feature(users.User(email=addr))
can_create_feature(creators, addr) == addr \in creators

\* ReplyTo, were the permission check left out.
ReplyToAlways(creators, addr, triggering_user_email) == triggering_user_email

ReplyTo(creators, addr, triggering_user_email) ==
  IF can_create_feature(creators, addr) THEN triggering_user_email ELSE None

\* AssertReasons, were the assert statement missing.
AssertReasonsSkipped(reasons) == TRUE

\* assert reasons, 'We are emailing someone without any reason'
AssertReasons(reasons) == reasons # <<>>

\* The task dict returned when the assertion passes.
convert_reasons_to_task(creators, addr, reasons, email_html, subject, triggering_user_email) ==
  [to |-> addr,
   subject |-> subject,
   reply_to |-> ReplyTo(creators, addr, triggering_user_email),
   html |-> [body |-> email_html, footer |-> FooterLines(reasons)]]

\* ItemsInTaskOrder, were the items not sorted.
ItemsInInsertionOrder(addr_reasons) == addr_reasons

\* [convert_reasons_to_task(...) for addr, reasons in
\*  sorted(addr_reasons.items())]
ItemsInTaskOrder(addr_reasons) == SortedItems(addr_reasons, AddrOrder)

AllTasks(creators, addr_reasons, email_html, subject, triggering_user_email) ==
  LET items == ItemsInTaskOrder(addr_reasons)
  IN [i \in 1..Len(items) |->
        convert_reasons_to_task(creators, items[i][1], items[i][2],
                                email_html, subject, triggering_user_email)]

\* The comprehension raises when one of its calls does.
AllTasksRaise(addr_reasons) ==
  \E i \in 1..Len(addr_reasons) : ~AssertReasons(addr_reasons[i][2])

(* ------------------------------ datastore ------------------------------ *)
\* MilestoneSet; 0 stands for an unset (None) milestone, present = FALSE
\* for a Stage whose milestones property is None.
NoMilestones == [present |-> FALSE, android_first |-> 0, webview_first |-> 0]
MilestoneSet(android, webview) ==
  [present |-> TRUE, android_first |-> android, webview_first |-> webview]
MilestoneSets ==
  {NoMilestones, MilestoneSet(0, 0), MilestoneSet(88, 0), MilestoneSet(88, 89)}

Stage(feature_id, stage_type, milestones) ==
  [feature_id |-> feature_id, stage_type |-> stage_type,
   milestones |-> milestones]

FeatureId == 1
GateTypes == {1, 2}
ComponentNames == {"Blink", "Gone"}

\* core_enums.STAGE_TYPES_SHIPPING[feature_type] or 0
ShippingStageType(feature_type) ==
  IF feature_type = FEATURE_TYPE_INCUBATE_ID THEN STAGE_BLINK_SHIPPING
  ELSE IF feature_type = FEATURE_TYPE_EXISTING_ID THEN STAGE_FAST_SHIPPING
  ELSE 0

\* stage_helpers.get_feature_stages(feature_id).get(stage_type, []):
\* the stages of that feature and type, in stored order.
StagesOfType(stages, feature_id, stage_type) ==
  SelectSeq(stages,
            LAMBDA st : st.feature_id = feature_id
                        /\ st.stage_type = stage_type)

\* The datastore every specification starts from: one feature with its
\* owner and one existing blink component, one gate per gate type, nobody
\* subscribed.  The lists of watchers, owners, subscribers, stars, prefs
\* and stages are in the order the datastore's queries return them, which
\* is fixed while the datastore is unchanged.
BaseDatastore ==
  [fe |-> [id |-> FeatureId, name |-> "feature one",
           owner_emails |-> <<"owner_1@example.com">>,
           editor_emails |-> <<>>,
           cc_emails |-> <<>>, devrel_emails |-> <<>>,
           category |-> MISC, feature_type |-> FEATURE_TYPE_INCUBATE_ID,
           blink_components |-> <<"Blink">>,
           creator_email |-> "creator1@gmail.com",
           updater_email |-> "editor1@gmail.com"],
   watchers |-> <<>>,
   components |-> [n \in {"Blink"} |-> [owners |-> <<>>,
                                        subscribers |-> <<>>]],
   feature_stars |-> <<>>,
   user_prefs |-> <<>>,
   stages |-> <<>>,
   gates |-> [g \in GateTypes |-> [exists |-> TRUE,
                                   assignee_emails |-> <<>>]],
   approvers |-> [g \in GateTypes |-> <<>>],
   creators |-> {}]

\* One record or list entry that may be added to the baseline.  Gate 2 is
\* left as in the baseline: no assignee and no approver.
Entries ==
  [kind : {"owner", "editor", "cc", "devrel", "watcher", "component_owner",
           "component_subscriber", "star"},
   addr : Addrs]
  \cup [kind : {"unstar", "optout"}, addr : Addrs]
  \cup [kind : {"bounced"}, addr : {"owner_1@example.com"}]
  \cup [kind : {"creator"}, addr : AllAddrs]
  \cup [kind : {"assignee", "approver"}, addr : Addrs, gate_type : {1}]
  \cup [kind : {"no_gate"}, gate_type : {1}]
  \cup [kind : {"category_iwa", "feature_type_existing"}]
  \cup [kind : {"blink_component"}, name : {"Gone"}]
  \cup [kind : {"stage"}, stage_type : {STAGE_BLINK_SHIPPING},
        milestones : MilestoneSets]
  \cup [kind : {"stage"}, stage_type : {STAGE_BLINK_ORIGIN_TRIAL},
        milestones : {MilestoneSet(88, 0)}]

\* Replace the record of seq that has this email, or append it.
Upsert(seq, rec) ==
  IF \E i \in 1..Len(seq) : seq[i].email = rec.email
  THEN [i \in 1..Len(seq) |-> IF seq[i].email = rec.email THEN rec ELSE seq[i]]
  ELSE Append(seq, rec)

PrefOf(user_prefs, email) ==
  IF \E i \in 1..Len(user_prefs) : user_prefs[i].email = email
  THEN user_prefs[CHOOSE i \in 1..Len(user_prefs) :
                    user_prefs[i].email = email]
  ELSE [email |-> email, notify_as_starrer |-> TRUE, bounced |-> FALSE]

PutEntry(d, e) ==
  CASE e.kind = "owner" ->
         [d EXCEPT !.fe.owner_emails = Append(@, e.addr)]
    [] e.kind = "editor" ->
         [d EXCEPT !.fe.editor_emails = Append(@, e.addr)]
    [] e.kind = "cc" ->
         [d EXCEPT !.fe.cc_emails = Append(@, e.addr)]
    [] e.kind = "devrel" ->
         [d EXCEPT !.fe.devrel_emails = Append(@, e.addr)]
    [] e.kind = "watcher" ->
         [d EXCEPT !.watchers = Append(@, e.addr)]
    [] e.kind = "component_owner" ->
         [d EXCEPT !.components["Blink"].owners = Append(@, e.addr)]
    [] e.kind = "component_subscriber" ->
         [d EXCEPT !.components["Blink"].subscribers = Append(@, e.addr)]
    [] e.kind = "star" ->
         [d EXCEPT !.feature_stars =
            Upsert(@, [email |-> e.addr, feature_id |-> FeatureId,
                       starred |-> TRUE])]
    [] e.kind = "unstar" ->
         [d EXCEPT !.feature_stars =
            Upsert(@, [email |-> e.addr, feature_id |-> FeatureId,
                       starred |-> FALSE])]
    [] e.kind = "optout" ->
         [d EXCEPT !.user_prefs =
            Upsert(@, [PrefOf(@, e.addr) EXCEPT !.notify_as_starrer = FALSE])]
    [] e.kind = "bounced" ->
         [d EXCEPT !.user_prefs =
            Upsert(@, [PrefOf(@, e.addr) EXCEPT !.bounced = TRUE])]
    [] e.kind = "creator" ->
         [d EXCEPT !.creators = @ \cup {e.addr}]
    [] e.kind = "assignee" ->
         [d EXCEPT !.gates[e.gate_type].assignee_emails = Append(@, e.addr)]
    [] e.kind = "approver" ->
         [d EXCEPT !.approvers[e.gate_type] = Append(@, e.addr)]
    [] e.kind = "no_gate" ->
         [d EXCEPT !.gates[e.gate_type] =
            [exists |-> FALSE, assignee_emails |-> <<>>]]
    [] e.kind = "category_iwa" ->
         [d EXCEPT !.fe.category = IWA]
    [] e.kind = "feature_type_existing" ->
         [d EXCEPT !.fe.feature_type = FEATURE_TYPE_EXISTING_ID]
    [] e.kind = "blink_component" ->
         [d EXCEPT !.fe.blink_components = <<e.name>> \o @]
    [] e.kind = "stage" ->
         [d EXCEPT !.stages =
            Append(@, Stage(FeatureId, e.stage_type, e.milestones))]

RECURSIVE PutEntries(_, _)
PutEntries(d, es) ==
  IF es = <<>> THEN d ELSE PutEntries(PutEntry(d, Head(es)), Tail(es))

Datastores == {PutEntries(BaseDatastore, es) : es \in BoundedSeq(Entries, MaxEntries)}

(* ----------------------- apply_subscription_rules ---------------------- *)
Change(prop_name) ==
  [prop_name |-> prop_name, old_val |-> "old", new_val |-> "new"]

ChangeLists ==
  {<<>>, <<Change(SHIPPED_ANDROID_MILESTONE)>>, <<Change(OTHER_FIELD)>>,
   <<Change(OTHER_FIELD), Change(SHIPPED_ANDROID_MILESTONE)>>}

\* changed_field_names = {c['prop_name'] for c in changes}
ChangedFieldNames(changes) == {changes[i].prop_name : i \in 1..Len(changes)}

\* IwaRuleMatches, were the rule tied to the feature type as well.
IwaRuleMatchesIncubateOnly(fe) ==
  fe.category = IWA /\ fe.feature_type = FEATURE_TYPE_INCUBATE_ID

\* Rule 1: fe.category == core_enums.IWA
IwaRuleMatches(fe) == fe.category = IWA

\* ship_stages[0].milestones if len(ship_stages) > 0 else None
ShipMilestones(d, fe) ==
  LET ship_stages ==
        StagesOfType(d.stages, fe.id, ShippingStageType(fe.feature_type))
  IN IF Len(ship_stages) > 0 THEN ship_stages[1].milestones
     ELSE NoMilestones

\* Rule 2: a shipping milestone set with android_first and no webview_first,
\* and shipped_android_milestone among the changed fields.
WebviewRuleMatches(d, fe, changes) ==
  LET ship_milestones == ShipMilestones(d, fe)
  IN /\ ship_milestones.present
     /\ ship_milestones.android_first # 0
     /\ ~(ship_milestones.webview_first # 0)
     /\ ChangedFieldNames(changes) \cap {SHIPPED_ANDROID_MILESTONE} # {}

\* apply_subscription_rules, were rule 2 an elif of rule 1.
apply_subscription_rules_exclusive(d, fe, changes, iwa_addrs, webview_addrs) ==
  IF IwaRuleMatches(fe) THEN << <<IWA_RULE_REASON, iwa_addrs>> >>
  ELSE IF WebviewRuleMatches(d, fe, changes)
       THEN << <<WEBVIEW_RULE_REASON, webview_addrs>> >>
       ELSE <<>>

\* The dict {reason: addrs}, as the sequence of its items in insertion order.
apply_subscription_rules(d, fe, changes, iwa_addrs, webview_addrs) ==
  (IF IwaRuleMatches(fe) THEN << <<IWA_RULE_REASON, iwa_addrs>> >> ELSE <<>>)
  \o (IF WebviewRuleMatches(d, fe, changes)
      THEN << <<WEBVIEW_RULE_REASON, webview_addrs>> >> ELSE <<>>)

(* ------------------------------ make_*_email --------------------------- *)
\* format_email_body: the rendered template, kept as what it was rendered
\* from.
format_email_body(template_path, fe, changes, updater_email) ==
  [template |-> template_path, feature |-> fe.name, changes |-> changes,
   updater_email |-> IF updater_email = None THEN fe.updater_email
                     ELSE updater_email]

\* 'prefix: %s' % fe.name
Subject(prefix, fe) == <<prefix, fe.name>>

\* add_core_receivers, were the devrel contacts left out.
add_core_receivers_no_devrel(fe, addr_reasons) ==
  LET t1 == accumulate_reasons(addr_reasons, fe.owner_emails, OWNER_REASON)
      t2 == accumulate_reasons(t1, fe.editor_emails, EDITOR_REASON)
  IN accumulate_reasons(t2, fe.cc_emails, CC_REASON)

add_core_receivers(fe, addr_reasons) ==
  LET t1 == accumulate_reasons(addr_reasons, fe.owner_emails, OWNER_REASON)
      t2 == accumulate_reasons(t1, fe.editor_emails, EDITOR_REASON)
      t3 == accumulate_reasons(t2, fe.cc_emails, CC_REASON)
  IN accumulate_reasons(t3, fe.devrel_emails, DEVREL_REASON)

\* FeatureStar.get_feature_starrers: the emails of the UserPrefs of the
\* users with a starred FeatureStar on the feature who want notifications.
StarredEmails(d, feature_id) ==
  LET fs == SelectSeq(d.feature_stars,
                      LAMBDA s : s.feature_id = feature_id /\ s.starred)
  IN [i \in 1..Len(fs) |-> fs[i].email]

\* get_feature_starrers, were notify_as_starrer not looked at.
get_feature_starrers_any_pref(d, feature_id) ==
  LET emails == StarredEmails(d, feature_id)
      user_prefs == [i \in 1..Len(emails) |-> PrefOf(d.user_prefs, emails[i])]
      wanted == SelectSeq(user_prefs, LAMBDA up : ~up.bounced)
  IN [i \in 1..Len(wanted) |-> wanted[i].email]

get_feature_starrers(d, feature_id) ==
  LET emails == StarredEmails(d, feature_id)
      user_prefs == [i \in 1..Len(emails) |-> PrefOf(d.user_prefs, emails[i])]
      wanted == SelectSeq(user_prefs,
                          LAMBDA up : up.notify_as_starrer /\ ~up.bounced)
  IN [i \in 1..Len(wanted) |-> wanted[i].email]

\* ComponentLoop, were a component that is not found to end the loop.
RECURSIVE ComponentLoopStops(_, _, _)
ComponentLoopStops(d, names, addr_reasons) ==
  IF names = <<>> THEN addr_reasons
  ELSE IF Head(names) \notin DOMAIN d.components
       THEN addr_reasons
       ELSE ComponentLoopStops(d, Tail(names),
              accumulate_reasons(
                accumulate_reasons(addr_reasons,
                                   d.components[Head(names)].owners,
                                   COMPONENT_OWNER_REASON),
                d.components[Head(names)].subscribers,
                COMPONENT_SUBSCRIBER_REASON))

\* The loop over fe.blink_components; BlinkComponent.get_by_name finds
\* the components of d.components and no other.
RECURSIVE ComponentLoop(_, _, _)
ComponentLoop(d, names, addr_reasons) ==
  IF names = <<>> THEN addr_reasons
  ELSE IF Head(names) \notin DOMAIN d.components
       THEN ComponentLoop(d, Tail(names), addr_reasons)
       ELSE ComponentLoop(d, Tail(names),
              accumulate_reasons(
                accumulate_reasons(addr_reasons,
                                   d.components[Head(names)].owners,
                                   COMPONENT_OWNER_REASON),
                d.components[Head(names)].subscribers,
                COMPONENT_SUBSCRIBER_REASON))

\* for reason, sub_addrs in rule_results.items(): accumulate_reasons(...)
RECURSIVE RuleLoop(_, _)
RuleLoop(rule_results, addr_reasons) ==
  IF rule_results = <<>> THEN addr_reasons
  ELSE RuleLoop(Tail(rule_results),
                accumulate_reasons(addr_reasons, Head(rule_results)[2],
                                   Head(rule_results)[1]))

\* addr_reasons of make_feature_changes_email just before the tasks are
\* built.
FeatureChangesReasons(d, changes, iwa_addrs, webview_addrs) ==
  LET fe == d.fe
      t1 == add_core_receivers(fe, <<>>)
      t2 == accumulate_reasons(t1, d.watchers, WATCHER_REASON)
      t3 == ComponentLoop(d, fe.blink_components, t2)
      t4 == accumulate_reasons(t3, get_feature_starrers(d, fe.id),
                               STARRER_REASON)
  IN RuleLoop(apply_subscription_rules(d, fe, changes, iwa_addrs,
                                       webview_addrs), t4)

\* FeatureChangesSubject, were the creation subject used for updates too.
FeatureChangesSubjectNew(fe, is_update) == Subject("new feature: ", fe)

FeatureChangesSubject(fe, is_update) ==
  IF is_update THEN Subject("updated feature: ", fe)
  ELSE Subject("new feature: ", fe)

FeatureChangesTriggerer(fe, is_update) ==
  IF is_update THEN fe.updater_email ELSE fe.creator_email

FeatureChangesTemplate(is_update) ==
  IF is_update THEN "update-feature-email.html" ELSE "new-feature-email.html"

make_feature_changes_email(d, is_update, changes, iwa_addrs, webview_addrs) ==
  AllTasks(d.creators,
           FeatureChangesReasons(d, changes, iwa_addrs, webview_addrs),
           format_email_body(FeatureChangesTemplate(is_update), d.fe,
                             changes, None),
           FeatureChangesSubject(d.fe, is_update),
           FeatureChangesTriggerer(d.fe, is_update))

\* add_reviewers, were the approvers notified next to the assignees.
add_reviewers_and_approvers(d, gate_type, addr_reasons) ==
  LET gate == d.gates[gate_type]
      t1 == IF gate.exists
            THEN accumulate_reasons(addr_reasons, gate.assignee_emails,
                                    ASSIGNED_REASON)
            ELSE addr_reasons
  IN accumulate_reasons(t1, d.approvers[gate_type], REVIEWER_REASON)

\* approval_defs.get_gate_by_type(...) and approval_defs.get_approvers(...)
add_reviewers(d, gate_type, addr_reasons) ==
  LET gate == d.gates[gate_type]
  IN IF gate.exists /\ gate.assignee_emails # <<>>
     THEN accumulate_reasons(addr_reasons, gate.assignee_emails,
                             ASSIGNED_REASON)
     ELSE accumulate_reasons(addr_reasons, d.approvers[gate_type],
                             REVIEWER_REASON)

ReviewRequestsReasons(d, gate_type) == add_reviewers(d, gate_type, <<>>)

make_review_requests_email(d, gate_type, changes) ==
  AllTasks(d.creators, ReviewRequestsReasons(d, gate_type),
           format_email_body("update-feature-email.html", d.fe, changes, None),
           Subject("Review Request for feature: ", d.fe),
           d.fe.updater_email)

\* ', '.join(assignees) or 'None'
JoinOrNone(assignees) == IF assignees = <<>> THEN <<None>> ELSE assignees

\* ReviewAssignmentReasons, were the old assignees left out.
ReviewAssignmentReasonsNewOnly(old_assignees, new_assignees) ==
  accumulate_reasons(<<>>, new_assignees, NEW_ASSIGNEE_REASON)

ReviewAssignmentReasons(old_assignees, new_assignees) ==
  accumulate_reasons(
    accumulate_reasons(<<>>, old_assignees, OLD_ASSIGNEE_REASON),
    new_assignees, NEW_ASSIGNEE_REASON)

make_review_assignment_email(d, gate_type, triggering_user_email, old_assignees, new_assignees) ==
  AllTasks(d.creators,
           ReviewAssignmentReasons(old_assignees, new_assignees),
           format_email_body(
             "update-feature-email.html", d.fe,
             <<[prop_name |-> "Assigned reiewer",
                old_val |-> JoinOrNone(old_assignees),
                new_val |-> JoinOrNone(new_assignees)]>>,
             triggering_user_email),
           Subject("Review assigned for feature: ", d.fe),
           triggering_user_email)

\* NewCommentsReasons, were the all-feature watchers added as well.
NewCommentsReasonsWatched(d, gate_type) ==
  accumulate_reasons(
    add_reviewers(d, gate_type, add_core_receivers(d.fe, <<>>)),
    d.watchers, WATCHER_REASON)

NewCommentsReasons(d, gate_type) ==
  add_reviewers(d, gate_type, add_core_receivers(d.fe, <<>>))

make_new_comments_email(d, gate_type, changes) ==
  AllTasks(d.creators, NewCommentsReasons(d, gate_type),
           format_email_body("update-feature-email.html", d.fe, changes, None),
           Subject("New comments for feature: ", d.fe),
           d.fe.updater_email)

(* -------------------------------- state -------------------------------- *)
VARIABLES
  datastore,           \* the entities the notifier reads
  IWA_RULE_ADDRS,      \* module-level list
  WEBVIEW_RULE_ADDRS,  \* module-level list
  call,                \* the last make_*_email call and its arguments
  repeated,            \* that call had the arguments of the one before it
  rule_results,        \* what apply_subscription_rules returned in that call
  tasks,               \* the task list that call returned
  raised,              \* the exception that call raised, or None
  table,               \* an addr_reasons table handed to accumulate_reasons
  unit_call,           \* the last direct call of one of the two helpers
  unit_task,           \* <<task>> returned by convert_reasons_to_task, or <<>>
  unit_raised,         \* the exception that direct call raised, or None
  SEND_EMAIL,          \* settings.SEND_EMAIL
  queue,               \* the cloud tasks enqueued so far, oldest first
  logged,              \* the tasks send_emails logged instead of enqueuing
  handler,             \* the last handler or mailing-list call and its outcome
  star_count,          \* FeatureEntry.star_count of each feature
  star_call,           \* the last set_star call and what it found
  star_history,        \* what the last set_star call of each user on each
                       \* feature asked for
  user_stars,          \* the get_user_stars call made last and its result,
                       \* NoCall once a set_star call came after it
  app_users,           \* the AppUser entities
  activities,          \* the Activity entities stored, oldest first
  procs                \* the set_star call each user's request is in, and
                       \* what the call has read

globals == <<IWA_RULE_ADDRS, WEBVIEW_RULE_ADDRS>>
eventVars == <<call, repeated, rule_results, tasks, raised>>
unitVars == <<table, unit_call, unit_task, unit_raised>>
outVars == <<SEND_EMAIL, queue, logged, handler>>
starVars == <<star_count, star_call, star_history, user_stars>>
storeVars == <<app_users, activities, procs>>
vars == <<datastore, globals, eventVars, unitVars, outVars, starVars, storeVars>>

NoCall == [fn |-> "none"]

InitGlobals ==
  /\ IWA_RULE_ADDRS = IWA_RULE_ADDRS_INIT
  /\ WEBVIEW_RULE_ADDRS = WEBVIEW_RULE_ADDRS_INIT

InitEvent ==
  /\ call = NoCall
  /\ repeated = FALSE
  /\ rule_results = <<>>
  /\ tasks = <<>>
  /\ raised = None

InitUnit ==
  /\ table = <<>>
  /\ unit_call = NoCall
  /\ unit_task = <<>>
  /\ unit_raised = None

\* The features FeatureStarTest.setUp stores, by id.
StarFeatureIds == {FeatureId, FeatureId + 1}
StarEmails == {"user2@example.com", "user5@example.com"}

InitOut ==
  /\ queue = <<>>
  /\ logged = <<>>
  /\ handler = NoCall

InitStars ==
  /\ star_count = [f \in StarFeatureIds |-> 0]
  /\ star_call = NoCall
  /\ star_history = [e \in StarEmails |-> [f \in StarFeatureIds |-> "never"]]
  /\ user_stars = NoCall

InitProcs ==
  procs = [e \in StarEmails |->
             [pc |-> "idle", calls |-> 0, starred |-> FALSE,
              feature_star |-> 0, branch |-> "return", star_count |-> 0]]

InitStores ==
  /\ app_users = <<>>
  /\ activities = <<>>
  /\ InitProcs

Init ==
  /\ datastore \in Datastores
  /\ InitGlobals
  /\ InitEvent
  /\ InitUnit
  /\ SEND_EMAIL = TRUE
  /\ InitOut
  /\ InitStars
  /\ InitStores

(* ------------------------------- events -------------------------------- *)
ReviewChangeLists == {<<Change("review_status")>>}
AssigneeLists == BoundedSeq(Addrs, 1)
TRIGGERING_USER == "triggerer@example.com"

\* One make_*_email call: c is the call, addr_reasons its final table, rr
\* what apply_subscription_rules returned in it, ts the tasks it builds.
\* A behaviour is one notification event over one datastore, and the
\* deliveries of that same event again.
Event(c, addr_reasons, rr, ts) ==
  /\ call \in {NoCall, c}
  /\ call' = c
  /\ repeated' = (call = c)
  /\ rule_results' = rr
  /\ raised' = IF AllTasksRaise(addr_reasons) THEN "AssertionError" ELSE None
  /\ tasks' = IF AllTasksRaise(addr_reasons) THEN <<>> ELSE ts
  /\ UNCHANGED <<datastore, unitVars, outVars, starVars, storeVars>>

\* AddrListAfter, were the loop to pop the addresses off the list.
AddrListAfterDrained(addr_list) == <<>>

\* A list after accumulate_reasons got it as addr_list: "for email in
\* addr_list" reads the list and appends to addr_reasons only.
AddrListAfter(addr_list) == addr_list

\* RuleAddrsAfter, were the recipients of the event added to the list of
\* the rule that matched.
RuleAddrsAfterExtended(rule_addrs, rule_reason, rr) ==
  IF \E i \in 1..Len(rr) : rr[i][1] = rule_reason
  THEN rule_addrs \o <<"owner_1@example.com">> ELSE rule_addrs

\* A module-level list after a call of make_feature_changes_email:
\* apply_subscription_rules puts the list itself in its result, which is
\* then an addr_list of accumulate_reasons.
RuleAddrsAfter(rule_addrs, rule_reason, rr) ==
  IF \E i \in 1..Len(rr) : rr[i][1] = rule_reason
  THEN AddrListAfter(rule_addrs) ELSE rule_addrs

MakeFeatureChangesEmail ==
  \E is_update \in BOOLEAN, changes \in ChangeLists :
    LET rr == apply_subscription_rules(datastore, datastore.fe, changes,
                                       IWA_RULE_ADDRS, WEBVIEW_RULE_ADDRS)
    IN /\ Event([fn |-> "make_feature_changes_email",
                 is_update |-> is_update, changes |-> changes],
                FeatureChangesReasons(datastore, changes, IWA_RULE_ADDRS,
                                      WEBVIEW_RULE_ADDRS),
                rr,
                make_feature_changes_email(datastore, is_update, changes,
                                           IWA_RULE_ADDRS,
                                           WEBVIEW_RULE_ADDRS))
       /\ IWA_RULE_ADDRS' = RuleAddrsAfter(IWA_RULE_ADDRS, IWA_RULE_REASON, rr)
       /\ WEBVIEW_RULE_ADDRS' =
            RuleAddrsAfter(WEBVIEW_RULE_ADDRS, WEBVIEW_RULE_REASON, rr)

MakeReviewRequestsEmail ==
  \E gate_type \in GateTypes, changes \in ReviewChangeLists :
    /\ Event([fn |-> "make_review_requests_email", gate_type |-> gate_type,
              changes |-> changes],
             ReviewRequestsReasons(datastore, gate_type),
             <<>>,
             make_review_requests_email(datastore, gate_type, changes))
    /\ UNCHANGED globals

MakeReviewAssignmentEmail ==
  \E gate_type \in {1}, old_assignees \in AssigneeLists,
     new_assignees \in AssigneeLists :
    /\ Event([fn |-> "make_review_assignment_email",
               gate_type |-> gate_type,
               triggering_user_email |-> TRIGGERING_USER,
               old_assignees |-> old_assignees,
               new_assignees |-> new_assignees],
              ReviewAssignmentReasons(old_assignees, new_assignees),
              <<>>,
              make_review_assignment_email(datastore, gate_type,
                                           TRIGGERING_USER, old_assignees,
                                           new_assignees))
    /\ UNCHANGED globals

MakeNewCommentsEmail ==
  \E gate_type \in GateTypes, changes \in ReviewChangeLists :
    /\ Event([fn |-> "make_new_comments_email", gate_type |-> gate_type,
              changes |-> changes],
             NewCommentsReasons(datastore, gate_type),
             <<>>,
             make_new_comments_email(datastore, gate_type, changes))
    /\ UNCHANGED globals

Next ==
  \/ MakeFeatureChangesEmail
  \/ MakeReviewRequestsEmail
  \/ MakeReviewAssignmentEmail
  \/ MakeNewCommentsEmail

Spec == Init /\ [][Next]_vars

(* ---------------- direct calls of the two helper functions ------------- *)
UnitReasons == {WEBVIEW_RULE_REASON, CC_REASON, OWNER_REASON}
UnitTriggerers == {TRIGGERING_USER, "editor1@gmail.com"}

\* Number of reasons held by a table.
RECURSIVE TableSize(_)
TableSize(t) == IF t = <<>> THEN 0 ELSE Len(Head(t)[2]) + TableSize(Tail(t))

\* accumulate_reasons(table, addr_list, reason), as the tests call it.
AccumulateReasons ==
  \E addr_list \in BoundedSeq(AllAddrs, MaxLen), reason \in UnitReasons :
    /\ TableSize(table) + Len(addr_list) <= MaxLen
    /\ table' = accumulate_reasons(table, addr_list, reason)
    /\ unit_call' = [fn |-> "accumulate_reasons", addr_reasons |-> table,
                     addr_list |-> addr_list, reason |-> reason]
    /\ unit_task' = <<>>
    /\ unit_raised' = None
    /\ UNCHANGED <<datastore, globals, eventVars, outVars, starVars, storeVars>>

\* convert_reasons_to_task(addr, reasons, email_html, subject,
\* triggering_user_email), as the tests call it: one call per behaviour,
\* the function keeps no state.
ConvertReasonsToTask ==
  \E addr \in AllAddrs, reasons \in BoundedSeq(UnitReasons, MaxLen),
     triggering_user_email \in UnitTriggerers :
    /\ unit_call = NoCall
    /\ unit_call' = [fn |-> "convert_reasons_to_task", addr |-> addr,
                     reasons |-> reasons, email_html |-> "html",
                     subject |-> "subject",
                     triggering_user_email |-> triggering_user_email]
    /\ IF AssertReasons(reasons)
       THEN /\ unit_task' = <<convert_reasons_to_task(
                                datastore.creators, addr, reasons, "html",
                                "subject", triggering_user_email)>>
            /\ unit_raised' = None
       ELSE /\ unit_task' = <<>>
            /\ unit_raised' = "AssertionError"
    /\ UNCHANGED <<datastore, globals, eventVars, table, outVars, starVars,
                   storeVars>>

InitAccumulate ==
  /\ datastore = BaseDatastore
  /\ InitGlobals
  /\ InitEvent
  /\ InitUnit
  /\ SEND_EMAIL = TRUE
  /\ InitOut
  /\ InitStars
  /\ InitStores

SpecAccumulate == InitAccumulate /\ [][AccumulateReasons]_vars

InitConvert ==
  /\ datastore \in {[BaseDatastore EXCEPT !.creators = c] : c \in SUBSET Addrs}
  /\ InitGlobals
  /\ InitEvent
  /\ InitUnit
  /\ SEND_EMAIL = TRUE
  /\ InitOut
  /\ InitStars
  /\ InitStores

SpecConvert == InitConvert /\ [][ConvertReasonsToTask]_vars

(* ------------------------------ send_emails ---------------------------- *)
OUTBOUND_EMAIL_URL == "/tasks/outbound-email"

\* cloud_tasks_helpers.enqueue_task(url, params)
enqueue_task(q, url, params) == Append(q, [url |-> url, params |-> params])

\* task.get(name, default)
TaskGet(task, name, default) ==
  IF name \in DOMAIN task THEN task[name] ELSE default

\* The values the 'Would send the following email' line is formatted from.
LogLine(task) ==
  [to |-> TaskGet(task, "to", None),
   from_user |-> TaskGet(task, "from_user", None),
   references |-> TaskGet(task, "references", <<>>),
   reply_to |-> TaskGet(task, "reply_to", None),
   subject |-> TaskGet(task, "subject", None),
   html |-> TaskGet(task, "html", "")]

\* SendOne, were the task enqueued a second time.
SendOneRetried(out, task, send_email) ==
  IF send_email
  THEN [out EXCEPT !.queue = enqueue_task(
                               enqueue_task(@, OUTBOUND_EMAIL_URL, task),
                               OUTBOUND_EMAIL_URL, task)]
  ELSE [out EXCEPT !.logged = Append(@, LogLine(task))]

\* The body of the loop of send_emails; out holds the queue and the log.
SendOne(out, task, send_email) ==
  IF send_email
  THEN [out EXCEPT !.queue = enqueue_task(@, OUTBOUND_EMAIL_URL, task)]
  ELSE [out EXCEPT !.logged = Append(@, LogLine(task))]

RECURSIVE send_emails(_, _, _)
send_emails(out, email_tasks, send_email) ==
  IF email_tasks = <<>> THEN out
  ELSE send_emails(SendOne(out, Head(email_tasks), send_email),
                   Tail(email_tasks), send_email)

(* ------------------------ origin trial requests ------------------------ *)
OT_SUPPORT_EMAIL == "origin-trials-support@google.com"

\* The stage dicts the two origin trial handlers are posted.
OT_STAGE ==
  [id |-> 10, stage_type |-> STAGE_BLINK_ORIGIN_TRIAL,
   feature_id |-> FeatureId, ot_display_name |-> "A new origin trial",
   ot_owner_email |-> "owner@example.com",
   ot_emails |-> <<"user1@example.com", "user2@example.com">>,
   intent_thread_url |-> "https://example.com/intent",
   ot_is_deprecation_trial |-> TRUE, ot_has_third_party_support |-> TRUE,
   ot_is_critical_trial |-> FALSE,
   ot_request_note |-> "Additional information about the trial creation."]
EXTENSION_STAGE ==
  [stage_type |-> STAGE_BLINK_EXTEND_ORIGIN_TRIAL, ot_stage_id |-> 10,
   feature_id |-> FeatureId, ot_owner_email |-> "another_user@example.com",
   intent_thread_url |-> "https://example.com/extension",
   ot_request_note |-> "Some more information about the trial extension."]

_yes_or_no(value) == IF value THEN "Yes" ELSE "No"

make_creation_request_email(stage) ==
  [to |-> OT_SUPPORT_EMAIL,
   subject |-> <<"New Trial Creation Request for ", stage.ot_display_name>>,
   reply_to |-> None,
   html |-> [requested_by |-> stage.ot_owner_email,
             contacts |-> stage.ot_emails,
             feature_name |-> stage.ot_display_name,
             deprecation_trial |-> _yes_or_no(stage.ot_is_deprecation_trial),
             third_party |-> _yes_or_no(stage.ot_has_third_party_support),
             critical_trial |-> _yes_or_no(stage.ot_is_critical_trial),
             chromestatus_url |-> <<"https://chromestatus.com/feature/",
                                    stage.feature_id>>,
             intent_url |-> stage.intent_thread_url,
             note |-> stage.ot_request_note]]

make_extension_request_email(extension_stage, ot_stage) ==
  [to |-> OT_SUPPORT_EMAIL,
   subject |-> <<"New Trial Extension Request for ",
                 ot_stage.ot_display_name>>,
   reply_to |-> None,
   html |-> [requested_by |-> extension_stage.ot_owner_email,
             feature_name |-> ot_stage.ot_display_name,
             intent_url |-> extension_stage.intent_thread_url,
             note |-> extension_stage.ot_request_note]]

(* -------------------- post_comment_to_mailing_list --------------------- *)
\* An optional value is <<>> for None and <<x>> for x.
BLINK_DEV_ARCHIVE_URL_PREFIX ==
  "https://groups.google.com/a/chromium.org/d/msgid/blink-dev/"
TEST_ARCHIVE_URL_PREFIX == "https://groups.google.com/d/msgid/jrobbins-test/"
REVIEW_COMMENT_MAILING_LIST == "settings.REVIEW_COMMENT_MAILING_LIST"
FEATURE_TYPE_DEPRECATION_ID == 3

\* approval_defs.APPROVAL_FIELDS_BY_ID: the name of each approval field.
PrototypeApproval == 1
ExperimentApproval == 2
ExtendExperimentApproval == 3
ShipApproval == 4
APPROVAL_FIELDS_BY_ID ==
  [id \in {PrototypeApproval, ExperimentApproval, ExtendExperimentApproval,
           ShipApproval} |->
     CASE id = PrototypeApproval -> "Intent to Prototype"
       [] id = ExperimentApproval -> "Intent to Experiment"
       [] id = ExtendExperimentApproval -> "Intent to Extend Experiment"
       [] id = ShipApproval -> "Intent to Ship"]

\* A URL is the text prefix + msgid + tail, tail being a query string, an
\* anchor, both or nothing.
Url(prefix, msgid, tail) == [prefix |-> prefix, msgid |-> msgid, tail |-> tail]

\* urllib.parse.unquote on the message ids of the stored URLs.
Unquote(msgid) ==
  CASE msgid = "123xxx%3Dyyy%40mail.gmail.com" -> "123xxx=yyy@mail.gmail.com"
    [] msgid = "456xxx%3Dyyy%40mail.gmail.com" -> "456xxx=yyy@mail.gmail.com"
    [] OTHER -> msgid

\* The gates and stages Gate.get_by_id and Stage.get_by_id find.
GATE_BY_ID ==
  [id \in {11, 12, 13, 14, 16} |->
     [stage_id |-> CASE id = 11 -> 21 [] id = 12 -> 22 [] id = 13 -> 23
                     [] id = 14 -> 29 [] id = 16 -> 24]]
STAGE_BY_ID ==
  [id \in {21, 22, 23, 24} |->
     CASE id = 21 -> [intent_subject_line |-> <<>>, intent_thread_url |-> <<>>]
       [] id = 22 ->
            [intent_subject_line |->
               << <<"Intent to Ship", ": ", "feature one">> >>,
             intent_thread_url |->
               <<Url(BLINK_DEV_ARCHIVE_URL_PREFIX,
                     "123xxx%3Dyyy%40mail.gmail.com", "?param=val#anchor")>>]
       [] id = 23 ->
            [intent_subject_line |->
               << <<"Re: ", "Intent to Ship", ": ", "feature one">> >>,
             intent_thread_url |->
               <<Url("https://example.com/", "intent", "")>>]
       [] id = 24 ->
            [intent_subject_line |-> <<>>,
             intent_thread_url |->
               <<Url(TEST_ARCHIVE_URL_PREFIX,
                     "456xxx%3Dyyy%40mail.gmail.com", "")>>]]
MISSING_GATE_ID == 15

\* Gate.get_by_id and Stage.get_by_id
GetById(by_id, id) == IF id \in DOMAIN by_id THEN <<by_id[id]>> ELSE <<>>

\* author_addr.split('@')[0]
LocalPart(addr) ==
  CASE addr = "reviewer@example.com" -> "reviewer"
    [] OTHER -> addr

generate_thread_subject(feature, approval_field_id) ==
  LET name == APPROVAL_FIELDS_BY_ID[approval_field_id]
      intent_phrase ==
        IF feature.feature_type = FEATURE_TYPE_DEPRECATION_ID
        THEN CASE approval_field_id = PrototypeApproval ->
                    "Intent to Deprecate and Remove"
               [] approval_field_id = ExperimentApproval ->
                    "Request for Deprecation Trial"
               [] approval_field_id = ExtendExperimentApproval ->
                    "Intent to Extend Deprecation Trial"
               [] OTHER -> name
        ELSE name
  IN <<intent_phrase, ": ", feature.name>>

\* get_thread_id, were the archive of the test list not known.
get_thread_id_blink_dev_only(stage) ==
  IF stage.intent_thread_url = <<>> THEN <<>>
  ELSE LET url == stage.intent_thread_url[1]
       IN IF url.prefix = BLINK_DEV_ARCHIVE_URL_PREFIX
          THEN <<Unquote(url.msgid)>>
          ELSE <<>>

\* get_thread_id: the anchor and the query string are chopped off, the rest
\* is unquoted and the archive prefix taken off.
get_thread_id(stage) ==
  IF stage.intent_thread_url = <<>> THEN <<>>
  ELSE LET url == stage.intent_thread_url[1]
       IN IF url.prefix \in {BLINK_DEV_ARCHIVE_URL_PREFIX,
                             TEST_ARCHIVE_URL_PREFIX}
          THEN <<Unquote(url.msgid)>>
          ELSE <<>>

\* The stage of the gate, <<>> when the gate or its stage is not found.
StageOfGate(gate_id) ==
  LET gate == GetById(GATE_BY_ID, gate_id)
  IN IF gate = <<>> THEN <<>> ELSE GetById(STAGE_BY_ID, gate[1].stage_id)

\* The email task post_comment_to_mailing_list builds for a stage.
CommentTask(feature, stage, approval_field_id, author_addr, comment_content) ==
  LET subject == IF stage.intent_subject_line = <<>>
                 THEN generate_thread_subject(feature, approval_field_id)
                 ELSE stage.intent_subject_line[1]
      thread_id == get_thread_id(stage)
  IN [to |-> REVIEW_COMMENT_MAILING_LIST,
      from_user |-> LocalPart(author_addr),
      references |-> IF thread_id # <<>> /\ thread_id[1] # ""
                     THEN <<"<", thread_id[1], ">">> ELSE <<>>,
      subject |-> IF Head(subject) # "Re: " THEN <<"Re: ">> \o subject
                  ELSE subject,
      html |-> [template |-> "review-comment-email.html",
                comment_content |-> comment_content]]

(* ------------------------------- handlers ------------------------------ *)
\* The feature id of a payload whose feature is not in the datastore.
MISSING_FEATURE_ID == 404
HandlerFeatureIds == {FeatureId, MISSING_FEATURE_ID}
HandlerChangeLists == {<<>>, <<Change(SHIPPED_ANDROID_MILESTONE)>>}
HandlerAssigneeLists == {<<>>, <<"owner_1@example.com">>}
HandlerDatastores ==
  {BaseDatastore,
   [BaseDatastore EXCEPT !.fe.owner_emails = <<>>, !.fe.category = IWA],
   PutEntries(BaseDatastore,
              <<[kind |-> "category_iwa"],
                [kind |-> "stage", stage_type |-> STAGE_BLINK_SHIPPING,
                 milestones |-> MilestoneSet(88, 0)]>>),
   PutEntries(BaseDatastore,
              <<[kind |-> "creator", addr |-> "owner_1@example.com"],
                [kind |-> "approver", addr |-> "iwa-dev@chromium.org",
                 gate_type |-> 1]>>)}

\* The end of a handler run or of a mailing-list post: send_emails is
\* called with email_tasks unless the run ended before that call.  The
\* runs are cut off once MaxQueue tasks were enqueued or logged.
Handled(name, args, email_tasks, called, err) ==
  LET out == IF called
             THEN send_emails([queue |-> queue, logged |-> logged],
                              email_tasks, SEND_EMAIL)
             ELSE [queue |-> queue, logged |-> logged]
  IN /\ Len(queue) + Len(logged) <= MaxQueue
     /\ queue' = out.queue
     /\ logged' = out.logged
     /\ handler' = [name |-> name, args |-> args,
                    email_tasks |-> email_tasks, called |-> called,
                    raised |-> err,
                    message |-> IF err # None THEN None
                                ELSE IF name \in {"OriginTrialCreationRequestHandler",
                                                  "OriginTrialExtensionRequestHandler"}
                                     THEN "OK"
                                     ELSE IF name = "post_comment_to_mailing_list"
                                          THEN None
                                          ELSE IF name = "NotifyInactiveUsersHandler"
                                               THEN <<Len(email_tasks),
                                                      " users notified of inactivity.",
                                                      "Notified users:">>
                                                    \o [i \in 1..Len(email_tasks) |->
                                                          email_tasks[i].to]
                                               ELSE "Done"]
     /\ UNCHANGED <<datastore, SEND_EMAIL, unitVars, starVars, activities,
                    procs>>

\* A feature-event handler that found the feature: it makes the email
\* tasks of the call c and hands them to send_emails.
HandleEvent(name, args, c, addr_reasons, rr, ts) ==
  /\ call' = c
  /\ repeated' = (call = c)
  /\ rule_results' = rr
  /\ raised' = IF AllTasksRaise(addr_reasons) THEN "AssertionError" ELSE None
  /\ tasks' = IF AllTasksRaise(addr_reasons) THEN <<>> ELSE ts
  /\ Handled(name, args, IF AllTasksRaise(addr_reasons) THEN <<>> ELSE ts,
             ~AllTasksRaise(addr_reasons),
             IF AllTasksRaise(addr_reasons) THEN "AssertionError" ELSE None)
  /\ UNCHANGED app_users

\* HandleNothing, were the name of a feature read that was not found.
HandleNothingRaises(name, args) ==
  /\ call' = NoCall
  /\ repeated' = FALSE
  /\ rule_results' = <<>>
  /\ raised' = "AttributeError"
  /\ tasks' = <<>>
  /\ Handled(name, args, <<>>, FALSE, "AttributeError")
  /\ UNCHANGED <<globals, app_users>>

\* A feature-event handler that makes no email tasks.
HandleNothing(name, args) ==
  /\ call' = NoCall
  /\ repeated' = FALSE
  /\ rule_results' = <<>>
  /\ raised' = None
  /\ tasks' = <<>>
  /\ Handled(name, args, <<>>, FALSE, None)
  /\ UNCHANGED <<globals, app_users>>

\* EmailsOfChanges, were the emails made for every update.
EmailsOfChangesAlways(fe_found, is_update, changes) == fe_found

\* if fe and (is_update and len(changes) or not is_update)
EmailsOfChanges(fe_found, is_update, changes) ==
  fe_found /\ ((is_update /\ Len(changes) # 0) \/ ~is_update)

\* FeatureChangeHandler.process_post_data for one posted task.
FeatureChangeRun(feature_id, is_update, changes) ==
    LET args == [feature_id |-> feature_id, is_update |-> is_update,
                 changes |-> changes]
        fe_found == feature_id = datastore.fe.id
        rr == apply_subscription_rules(datastore, datastore.fe, changes,
                                       IWA_RULE_ADDRS, WEBVIEW_RULE_ADDRS)
    IN IF EmailsOfChanges(fe_found, is_update, changes)
       THEN /\ HandleEvent("FeatureChangeHandler", args,
                           [fn |-> "make_feature_changes_email",
                            is_update |-> is_update, changes |-> changes],
                           FeatureChangesReasons(datastore, changes,
                                                 IWA_RULE_ADDRS,
                                                 WEBVIEW_RULE_ADDRS),
                           rr,
                           make_feature_changes_email(
                             datastore, is_update, changes, IWA_RULE_ADDRS,
                             WEBVIEW_RULE_ADDRS))
            /\ IWA_RULE_ADDRS' =
                 RuleAddrsAfter(IWA_RULE_ADDRS, IWA_RULE_REASON, rr)
            /\ WEBVIEW_RULE_ADDRS' =
                 RuleAddrsAfter(WEBVIEW_RULE_ADDRS, WEBVIEW_RULE_REASON, rr)
       ELSE HandleNothing("FeatureChangeHandler", args)

FeatureChangeHandler ==
  \E feature_id \in HandlerFeatureIds, is_update \in BOOLEAN,
     changes \in HandlerChangeLists :
    FeatureChangeRun(feature_id, is_update, changes)

\* FeatureReviewHandler.process_post_data
FeatureReviewHandler ==
  \E feature_id \in HandlerFeatureIds, gate_type \in {1} :
    LET args == [feature_id |-> feature_id, gate_type |-> gate_type,
                 changes |-> <<>>]
    IN IF feature_id = datastore.fe.id
       THEN /\ HandleEvent("FeatureReviewHandler", args,
                           [fn |-> "make_review_requests_email",
                            gate_type |-> gate_type, changes |-> <<>>],
                           ReviewRequestsReasons(datastore, gate_type), <<>>,
                           make_review_requests_email(datastore, gate_type,
                                                      <<>>))
            /\ UNCHANGED globals
       ELSE HandleNothing("FeatureReviewHandler", args)

\* ReviewAssignmentHandler.process_post_data for one posted task.
ReviewAssignmentRun(feature_id, gate_type, old_assignees, new_assignees) ==
    LET c == [fn |-> "make_review_assignment_email", gate_type |-> gate_type,
              triggering_user_email |-> TRIGGERING_USER,
              old_assignees |-> old_assignees,
              new_assignees |-> new_assignees]
        args == [feature_id |-> feature_id, gate_type |-> gate_type,
                 triggering_user_email |-> TRIGGERING_USER,
                 old_assignees |-> old_assignees,
                 new_assignees |-> new_assignees]
    IN IF feature_id = datastore.fe.id
       THEN /\ HandleEvent("ReviewAssignmentHandler", args, c,
                           ReviewAssignmentReasons(old_assignees,
                                                   new_assignees),
                           <<>>,
                           make_review_assignment_email(
                             datastore, gate_type, TRIGGERING_USER,
                             old_assignees, new_assignees))
            /\ UNCHANGED globals
       ELSE HandleNothing("ReviewAssignmentHandler", args)

ReviewAssignmentHandler ==
  \E feature_id \in HandlerFeatureIds, gate_type \in {1},
     old_assignees \in HandlerAssigneeLists,
     new_assignees \in HandlerAssigneeLists :
    ReviewAssignmentRun(feature_id, gate_type, old_assignees, new_assignees)

\* FeatureCommentHandler.process_post_data
FeatureCommentHandler ==
  \E feature_id \in HandlerFeatureIds, gate_type \in {1} :
    LET args == [feature_id |-> feature_id, gate_type |-> gate_type,
                 changes |-> <<>>]
    IN IF feature_id = datastore.fe.id
       THEN /\ HandleEvent("FeatureCommentHandler", args,
                           [fn |-> "make_new_comments_email",
                            gate_type |-> gate_type, changes |-> <<>>],
                           NewCommentsReasons(datastore, gate_type), <<>>,
                           make_new_comments_email(datastore, gate_type,
                                                   <<>>))
            /\ UNCHANGED globals
       ELSE HandleNothing("FeatureCommentHandler", args)

\* OriginTrialCreationRequestHandler.process_post_data for one posted
\* task.
OriginTrialCreationRequestRun(stage) ==
  /\ Handled("OriginTrialCreationRequestHandler", [stage |-> stage],
             <<make_creation_request_email(stage)>>, TRUE, None)
  /\ UNCHANGED <<globals, eventVars, app_users>>

OriginTrialCreationRequestHandler == OriginTrialCreationRequestRun(OT_STAGE)

\* OriginTrialExtensionRequestHandler.process_post_data for one posted
\* task.
OriginTrialExtensionRequestRun(stage, ot_stage) ==
  /\ Handled("OriginTrialExtensionRequestHandler",
             [stage |-> stage, ot_stage |-> ot_stage],
             <<make_extension_request_email(stage, ot_stage)>>,
             TRUE, None)
  /\ UNCHANGED <<globals, eventVars, app_users>>

OriginTrialExtensionRequestHandler ==
  OriginTrialExtensionRequestRun(EXTENSION_STAGE, OT_STAGE)

\* RaisesNoStage, were the check of the stage left out.
RaisesNoStageNever(stage) == FALSE

\* post_comment_to_mailing_list raises ValueError for no stage.
RaisesNoStage(stage) == stage = <<>>

\* The features post_comment_to_mailing_list is called with and the
\* approval field of the comment.
CommentSubjects ==
  {<<FEATURE_TYPE_INCUBATE_ID, ShipApproval>>,
   <<FEATURE_TYPE_DEPRECATION_ID, PrototypeApproval>>}

\* post_comment_to_mailing_list(feature, gate_id, approval_field_id,
\* author_addr, comment_content); without the check of the stage,
\* get_thread_id reads intent_thread_url of None.
PostCommentToMailingList ==
  \E gate_id \in DOMAIN GATE_BY_ID \cup {MISSING_GATE_ID},
     fs \in CommentSubjects :
    LET feature == [datastore.fe EXCEPT !.feature_type = fs[1]]
        stage == StageOfGate(gate_id)
        args == [feature_type |-> fs[1], gate_id |-> gate_id,
                 approval_field_id |-> fs[2],
                 author_addr |-> "reviewer@example.com"]
    IN /\ IF RaisesNoStage(stage)
          THEN Handled("post_comment_to_mailing_list", args, <<>>, FALSE,
                       "ValueError")
          ELSE IF stage = <<>>
               THEN Handled("post_comment_to_mailing_list", args, <<>>,
                            FALSE, "AttributeError")
               ELSE Handled("post_comment_to_mailing_list", args,
                            <<CommentTask(feature, stage[1], fs[2],
                                          "reviewer@example.com",
                                          "comment content")>>,
                            TRUE, None)
       /\ UNCHANGED <<globals, eventVars, app_users>>

InitHandlers ==
  /\ datastore \in HandlerDatastores
  /\ InitGlobals
  /\ InitEvent
  /\ InitUnit
  /\ SEND_EMAIL \in BOOLEAN
  /\ InitOut
  /\ InitStars
  /\ InitStores

NextHandlers ==
  \/ FeatureChangeHandler
  \/ FeatureReviewHandler
  \/ ReviewAssignmentHandler
  \/ FeatureCommentHandler
  \/ OriginTrialCreationRequestHandler
  \/ OriginTrialExtensionRequestHandler
  \/ PostCommentToMailingList

SpecHandlers == InitHandlers /\ [][NextHandlers]_vars

(* ------------------------------ FeatureStar ---------------------------- *)
\* FeatureStar.get_star: the position in feature_stars of the first star
\* of that user on that feature, 0 for None.
get_star(feature_stars, email, feature_id) ==
  LET found == {i \in 1..Len(feature_stars) :
                  /\ feature_stars[i].email = email
                  /\ feature_stars[i].feature_id = feature_id}
  IN IF found = {} THEN 0
     ELSE CHOOSE i \in found : \A j \in found : i <= j

\* StarWrite, were an existing star written whatever its starred field.
StarWriteUnconditional(feature_stars, i, starred) ==
  IF i = 0 /\ starred THEN "create"
  ELSE IF i # 0 THEN "update"
  ELSE "return"

\* The branch set_star takes once get_star returned the star at i.
StarWrite(feature_stars, i, starred) ==
  IF i = 0 /\ starred THEN "create"
  ELSE IF i # 0 /\ feature_stars[i].starred # starred THEN "update"
  ELSE "return"

\* feature_stars after set_star.
StarsAfterSetStar(feature_stars, email, feature_id, starred) ==
  LET i == get_star(feature_stars, email, feature_id)
      branch == StarWrite(feature_stars, i, starred)
  IN CASE branch = "create" ->
            Append(feature_stars, [email |-> email, feature_id |-> feature_id,
                                   starred |-> TRUE])
       [] branch = "update" -> [feature_stars EXCEPT ![i].starred = starred]
       [] OTHER -> feature_stars

\* star_count of the features after set_star: the count that would be
\* negative is logged and not stored.
CountsAfterSetStar(feature_stars, counts, email, feature_id, starred) ==
  LET i == get_star(feature_stars, email, feature_id)
      count == counts[feature_id] + (IF starred THEN 1 ELSE -1)
  IN IF StarWrite(feature_stars, i, starred) = "return" \/ count < 0
     THEN counts
     ELSE [counts EXCEPT ![feature_id] = count]

\* FeatureStar.set_star(email, feature_id, starred), the whole call.
SetStar ==
  \E email \in StarEmails, feature_id \in StarFeatureIds,
     starred \in BOOLEAN :
    /\ datastore' =
         [datastore EXCEPT !.feature_stars =
            StarsAfterSetStar(@, email, feature_id, starred)]
    /\ star_count' = CountsAfterSetStar(datastore.feature_stars, star_count,
                                        email, feature_id, starred)
    /\ star_call' = [fn |-> "set_star", email |-> email,
                     feature_id |-> feature_id, starred |-> starred,
                     feature_stars |-> datastore.feature_stars,
                     star_count |-> star_count]
    /\ star_history' = [star_history EXCEPT ![email][feature_id] =
                          IF starred THEN "starred" ELSE "unstarred"]
    /\ user_stars' = NoCall
    /\ UNCHANGED <<globals, eventVars, unitVars, outVars, storeVars>>

InitSetStar ==
  /\ datastore = BaseDatastore
  /\ InitGlobals
  /\ InitEvent
  /\ InitUnit
  /\ SEND_EMAIL = TRUE
  /\ InitOut
  /\ InitStars
  /\ InitStores

SpecSetStar == InitSetStar /\ [][SetStar]_vars

\* sorted(feature_ids, reverse=True)
RECURSIVE SortedReverse(_)
SortedReverse(ids) ==
  IF ids = <<>> THEN <<>>
  ELSE LET m == CHOOSE x \in Range(ids) : \A y \in Range(ids) : y <= x
           i == CHOOSE k \in 1..Len(ids) :
                  ids[k] = m /\ \A j \in 1..(k - 1) : ids[j] # m
       IN <<m>> \o SortedReverse(SubSeq(ids, 1, i - 1)
                                 \o SubSeq(ids, i + 1, Len(ids)))

\* get_user_stars, were the filter on starred left out of the query.
get_user_stars_ever_starred(feature_stars, email) ==
  LET found == SelectSeq(feature_stars, LAMBDA fs : fs.email = email)
  IN SortedReverse([i \in 1..Len(found) |-> found[i].feature_id])

\* FeatureStar.get_user_stars: the query fetches the stars in the order
\* they are stored.
get_user_stars(feature_stars, email) ==
  LET found == SelectSeq(feature_stars,
                         LAMBDA fs : fs.email = email /\ fs.starred)
  IN SortedReverse([i \in 1..Len(found) |-> found[i].feature_id])

\* A user who never calls set_star.
NO_STARS_EMAIL == "user4@example.com"

\* FeatureStar.get_user_stars(email), the whole call.
GetUserStars ==
  \E email \in StarEmails \cup {NO_STARS_EMAIL} :
    /\ user_stars' = [fn |-> "get_user_stars", email |-> email,
                      feature_ids |->
                        get_user_stars(datastore.feature_stars, email)]
    /\ UNCHANGED <<datastore, globals, eventVars, unitVars, outVars,
                   star_count, star_call, star_history, storeVars>>

NextUserStars ==
  \/ SetStar
  \/ GetUserStars

SpecUserStars == InitSetStar /\ [][NextUserStars]_vars

(* ----------------------- NotifyInactiveUsersHandler -------------------- *)
\* A datetime is the number of its day in the proleptic Gregorian calendar
\* (date.toordinal); the times of day play no part.
IsLeap(y) == y % 4 = 0 /\ (y % 100 # 0 \/ y % 400 = 0)
DaysBeforeMonth(y, m) ==
  LET days == <<31, IF IsLeap(y) THEN 29 ELSE 28, 31, 30, 31, 30, 31, 31, 30,
                31, 30, 31>>
      sum[k \in 0..12] == IF k = 0 THEN 0 ELSE sum[k - 1] + days[k]
  IN sum[m - 1]
Date(y, m, d) ==
  365 * (y - 1) + ((y - 1) \div 4) - ((y - 1) \div 100) + ((y - 1) \div 400)
    + DaysBeforeMonth(y, m) + d

DEFAULT_LAST_VISIT == Date(2022, 8, 1)
INACTIVE_WARN_DAYS == 180

AppUser(email, created, last_visit, is_admin, is_site_editor, notified_inactive) ==
  [email |-> email, created |-> created, last_visit |-> last_visit,
   is_admin |-> is_admin, is_site_editor |-> is_site_editor,
   notified_inactive |-> notified_inactive]

\* The users NotifyInactiveUsersHandlerTest.setUp stores.
TEST_APP_USERS ==
  <<AppUser("active_user@example.com", Date(2020, 10, 1),
            <<Date(2023, 8, 30)>>, FALSE, FALSE, FALSE),
    AppUser("inactive_user@example.com", Date(2020, 10, 1),
            <<Date(2023, 2, 20)>>, FALSE, FALSE, FALSE),
    AppUser("new_user@example.com", Date(2023, 8, 1), <<>>,
            FALSE, FALSE, FALSE),
    AppUser("really_inactive_user@example.com", Date(2020, 10, 1),
            <<Date(2022, 10, 1)>>, FALSE, FALSE, TRUE),
    AppUser("active_admin@example.com", Date(2020, 10, 1),
            <<Date(2023, 9, 30)>>, TRUE, TRUE, FALSE),
    AppUser("inactive_admin@example.com", Date(2020, 10, 1),
            <<Date(2023, 3, 1)>>, TRUE, TRUE, FALSE),
    AppUser("active_site_editor@example.com", Date(2020, 10, 1),
            <<Date(2023, 7, 30)>>, FALSE, TRUE, FALSE),
    AppUser("inactive_site_editor@example.com", Date(2020, 10, 1),
            <<Date(2023, 2, 9)>>, FALSE, TRUE, FALSE)>>

\* The times the handler is run at.
Nows == {Date(2023, 9, 1), Date(2024, 3, 1)}

\* Other stores of users: the creation date and the last visit of a user,
\* the last one being the cutoff of the earlier run, and the three flags.
UserDates ==
  {<<Date(2020, 10, 1), <<>> >>,
   <<Date(2020, 10, 1), <<Date(2023, 2, 20)>> >>,
   <<Date(2020, 10, 1), <<Date(2023, 8, 30)>> >>,
   <<Date(2023, 8, 1), <<>> >>,
   <<Date(2023, 8, 1), <<Date(2023, 2, 20)>> >>,
   <<Date(2020, 10, 1), <<Date(2023, 9, 1) - INACTIVE_WARN_DAYS>> >>}
UserFlags ==
  {<<FALSE, FALSE, FALSE>>, <<TRUE, FALSE, FALSE>>, <<FALSE, TRUE, FALSE>>,
   <<TRUE, TRUE, FALSE>>, <<FALSE, FALSE, TRUE>>}
UserEmails ==
  <<"inactive_user@example.com", "new_user@example.com",
    "active_user@example.com">>
UserKinds == UserDates \X UserFlags
AppUserLists ==
  {[i \in 1..Len(ks) |->
      AppUser(UserEmails[i], ks[i][1][1], ks[i][1][2], ks[i][2][1],
              ks[i][2][2], ks[i][2][3])] : ks \in BoundedSeq(UserKinds, MaxUsers)}

\* last_visit of the loop body, were the creation date left out of it.
LastVisitRecorded(user) ==
  IF user.last_visit = <<>> THEN DEFAULT_LAST_VISIT ELSE user.last_visit[1]

\* last_visit = user.last_visit or DEFAULT_LAST_VISIT, replaced by
\* user.created when that is later.
LastVisit(user) ==
  LET last_visit == IF user.last_visit = <<>> THEN DEFAULT_LAST_VISIT
                    ELSE user.last_visit[1]
  IN IF user.created > last_visit THEN user.created ELSE last_visit

\* The user is notified in the run at now.
NotifiesUser(user, now) ==
  /\ ~(user.is_admin \/ user.is_site_editor \/ user.notified_inactive)
  /\ LastVisit(user) < now - INACTIVE_WARN_DAYS

\* user.notified_inactive = True; user.put(), were the flag not stored.
UserPutNothing(user) == user

\* user.notified_inactive = True; user.put()
UserPut(user) == [user EXCEPT !.notified_inactive = TRUE]

\* _determine_users_to_notify: the emails of the inactive users in the
\* order of the query, and the users as the loop leaves them.
_determine_users_to_notify(users, now) ==
  LET notified == SelectSeq(users, LAMBDA user : NotifiesUser(user, now))
  IN [inactive_users |-> [i \in 1..Len(notified) |-> notified[i].email],
      users |-> [i \in 1..Len(users) |->
                   IF NotifiesUser(users[i], now) THEN UserPut(users[i])
                   ELSE users[i]]]

_build_email_tasks(users_to_notify) ==
  [i \in 1..Len(users_to_notify) |->
     [to |-> users_to_notify[i],
      subject |-> <<"Notice of WebStatus user inactivity for ",
                    users_to_notify[i]>>,
      reply_to |-> None,
      html |-> [template |-> "inactive_user_email.html",
                site_url |-> "settings.SITE_URL"]]]

\* NotifyInactiveUsersHandler.get_template_data(now=now)
NotifyInactiveUsersHandler ==
  \E now \in Nows :
    LET found == _determine_users_to_notify(app_users, now)
    IN /\ app_users' = found.users
       /\ Handled("NotifyInactiveUsersHandler", [now |-> now],
                  _build_email_tasks(found.inactive_users), TRUE, None)
       /\ UNCHANGED <<globals, eventVars>>

InitInactive ==
  /\ datastore = BaseDatastore
  /\ InitGlobals
  /\ InitEvent
  /\ InitUnit
  /\ SEND_EMAIL = TRUE
  /\ InitOut
  /\ InitStars
  /\ app_users \in AppUserLists \cup {TEST_APP_USERS}
  /\ activities = <<>>
  /\ InitProcs

SpecInactive == InitInactive /\ [][NotifyInactiveUsersHandler]_vars

(* ---------------------------- notifier_helpers ------------------------- *)
\* A python value is its type and its value.
Py(t, v) == [t |-> t, v |-> v]
PyNone == Py("NoneType", "None")

\* a == b: a bool is the int 0 or 1, values of other different types
\* are not equal.
PyEq(a, b) ==
  LET num(x) == IF x.t = "bool" THEN (IF x.v THEN 1 ELSE 0) ELSE x.v
  IN IF a.t \in {"int", "bool"} /\ b.t \in {"int", "bool"}
     THEN num(a) = num(b)
     ELSE a.t = b.t /\ a.v = b.v

\* bool(a)
PyBool(a) ==
  CASE a.t = "NoneType" -> FALSE
    [] a.t = "str" -> a.v # ""
    [] a.t = "int" -> a.v # 0
    [] a.t = "bool" -> a.v

\* str(a)
PyStr(a) ==
  CASE a.t = "NoneType" -> "None"
    [] a.t = "str" -> a.v
    [] a.t = "int" -> (IF a.v = 0 THEN "0" ELSE "88")
    [] a.t = "bool" -> (IF a.v THEN "True" ELSE "False")

ChangedField(field, old_val, new_val) ==
  [field |-> field, old_val |-> old_val, new_val |-> new_val]

\* The changed_fields lists the helper is called with: the old and the new
\* value of a field are equal, differ, or are a null and a falsy value.
ValuePairs ==
  {<<PyNone, Py("str", "")>>, <<PyNone, Py("int", 0)>>,
   <<PyNone, Py("bool", FALSE)>>, <<PyNone, Py("int", 88)>>,
   <<Py("str", ""), PyNone>>, <<Py("int", 0), Py("bool", FALSE)>>,
   <<Py("int", 88), Py("int", 88)>>, <<Py("int", 0), Py("int", 88)>>,
   <<Py("str", ""), Py("str", "88")>>}
ChangedFieldLists ==
  {<<>>}
  \cup {<<ChangedField(SHIPPED_ANDROID_MILESTONE, p[1], p[2])>> :
          p \in ValuePairs}
  \cup {<<ChangedField(OTHER_FIELD, p[1], p[2]),
          ChangedField(SHIPPED_ANDROID_MILESTONE, PyNone, Py("int", 88))>> :
          p \in {<<PyNone, Py("str", "")>>,
                 <<Py("str", ""), Py("str", "88")>>}}

\* AmendsChange, were a null that became falsy logged as well.
AmendsChangeOfNull(changed_field) ==
  ~PyEq(changed_field.new_val, changed_field.old_val)

\* The loop body of _get_changes_as_amendments appends an amendment.
AmendsChange(changed_field) ==
  /\ ~PyEq(changed_field.new_val, changed_field.old_val)
  /\ ~(changed_field.old_val = PyNone /\ ~PyBool(changed_field.new_val))

_get_changes_as_amendments(changed_fields) ==
  LET kept == SelectSeq(changed_fields, AmendsChange)
  IN [i \in 1..Len(kept) |->
        [field_name |-> kept[i].field,
         old_value |-> PyStr(kept[i].old_val),
         new_value |-> PyStr(kept[i].new_val)]]

\* core_enums.convert_enum_int_to_string: the value of a field that is not
\* an enum is kept.
convert_enum_int_to_string(field_name, value) == value

EMAIL_SUBSCRIBERS_URL == "/tasks/email-subscribers"
EMAIL_ASSIGNED_URL == "/tasks/email-assigned"
OT_CREATION_REQUEST_URL == "/tasks/email-ot-creation-request"
OT_EXTENSION_REQUEST_URL == "/tasks/email-ot-extension-request"
OT_EXTENSION_STAGE_TYPES == {STAGE_BLINK_EXTEND_ORIGIN_TRIAL}
CURRENT_USER == "editor1@gmail.com"

\* The end of a call of a helper: one task is enqueued or none.  The calls
\* are cut off once MaxQueue tasks and activities were enqueued, logged or
\* stored.
Notified(name, args, enqueues, url, params) ==
  /\ Len(queue) + Len(logged) + Len(activities) <= MaxQueue
  /\ queue' = IF enqueues THEN enqueue_task(queue, url, params) ELSE queue
  /\ handler' = [name |-> name, args |-> args, email_tasks |-> <<>>,
                 called |-> FALSE, raised |-> None, message |-> None]
  /\ UNCHANGED <<datastore, globals, eventVars, unitVars, SEND_EMAIL, logged,
                 starVars, app_users, procs>>

\* notify_subscribers_and_save_amendments(fe, changed_fields, notify,
\* is_update), notify_feature_subscribers_of_changes included.
NotifySubscribersAndSaveAmendments ==
  \E changed_fields \in ChangedFieldLists, notify \in BOOLEAN,
     is_update \in BOOLEAN :
    LET amendments == _get_changes_as_amendments(changed_fields)
        changed_props ==
          [i \in 1..Len(amendments) |->
             [prop_name |-> amendments[i].field_name,
              old_val |-> convert_enum_int_to_string(
                            amendments[i].field_name, amendments[i].old_value),
              new_val |-> convert_enum_int_to_string(
                            amendments[i].field_name,
                            amendments[i].new_value)]]
    IN /\ activities' =
            IF Len(amendments) > 0
            THEN Append(activities,
                        [feature_id |-> datastore.fe.id,
                         author |-> CURRENT_USER, content |-> "",
                         amendments |-> amendments])
            ELSE activities
       /\ Notified("notify_subscribers_and_save_amendments",
                   [changed_fields |-> changed_fields, notify |-> notify,
                    is_update |-> is_update],
                   notify, EMAIL_SUBSCRIBERS_URL,
                   [changes |-> changed_props, is_update |-> is_update,
                    feature |-> [id |-> datastore.fe.id]])

\* notify_assignees(fe, gate, triggering_user_email, old_assignees,
\* new_assignees)
NotifyAssignees ==
  \E gate_type \in {1}, old_assignees \in HandlerAssigneeLists,
     new_assignees \in HandlerAssigneeLists :
    /\ Notified("notify_assignees",
                [gate_type |-> gate_type, old_assignees |-> old_assignees,
                 new_assignees |-> new_assignees],
                TRUE, EMAIL_ASSIGNED_URL,
                [triggering_user_email |-> TRIGGERING_USER,
                 old_assignees |-> old_assignees,
                 new_assignees |-> new_assignees, gate_type |-> gate_type,
                 feature |-> [id |-> datastore.fe.id]])
    /\ UNCHANGED activities

\* send_ot_notification, were every request one for a trial creation.
OtNotificationUrlCreation(stage_dict) == OT_CREATION_REQUEST_URL

\* The queue send_ot_notification enqueues its task on.
OtNotificationUrl(stage_dict) ==
  IF stage_dict.stage_type \in OT_EXTENSION_STAGE_TYPES
  THEN OT_EXTENSION_REQUEST_URL
  ELSE OT_CREATION_REQUEST_URL

\* send_ot_notification(stage); Stage.get_by_id(stage.ot_stage_id) finds
\* the origin trial stage.
SendOtNotification ==
  \E stage \in {OT_STAGE, EXTENSION_STAGE} :
    /\ Notified("send_ot_notification", [stage |-> stage], TRUE,
                OtNotificationUrl(stage),
                IF OtNotificationUrl(stage) = OT_EXTENSION_REQUEST_URL
                THEN [stage |-> stage, ot_stage |-> OT_STAGE]
                ELSE [stage |-> stage])
    /\ UNCHANGED activities

\* The handler of its URL is posted the i-th task of the queue.
HandleTask(i) ==
  LET url == queue[i].url
      params == queue[i].params
  IN CASE url = EMAIL_SUBSCRIBERS_URL ->
            FeatureChangeRun(params.feature.id, params.is_update,
                             params.changes)
       [] url = EMAIL_ASSIGNED_URL ->
            ReviewAssignmentRun(params.feature.id, params.gate_type,
                                params.old_assignees, params.new_assignees)
       [] url = OT_CREATION_REQUEST_URL ->
            OriginTrialCreationRequestRun(params.stage)
       [] url = OT_EXTENSION_REQUEST_URL ->
            OriginTrialExtensionRequestRun(params.stage, params.ot_stage)
       [] OTHER -> FALSE

HandleQueuedTask == \E i \in 1..Len(queue) : HandleTask(i)

NextNotify ==
  \/ NotifySubscribersAndSaveAmendments
  \/ NotifyAssignees
  \/ SendOtNotification
  \/ HandleQueuedTask

InitNotify ==
  /\ datastore \in {d \in HandlerDatastores : d.creators = {}}
  /\ InitGlobals
  /\ InitEvent
  /\ InitUnit
  /\ SEND_EMAIL = TRUE
  /\ InitOut
  /\ InitStars
  /\ InitStores

SpecNotify == InitNotify /\ [][NextNotify]_vars

(* ----------------------- interleaved set_star calls -------------------- *)
\* The requests of the users run at the same time: each datastore read and
\* each put of a set_star call on the feature FeatureId is a step of its
\* own, and nothing orders the steps of different calls.
StarStep(p, pc, proc) ==
  /\ procs[p].pc = pc
  /\ procs' = [procs EXCEPT ![p] = proc]
  /\ UNCHANGED <<globals, eventVars, unitVars, outVars, star_call,
                 star_history, user_stars, app_users, activities>>

\* set_star(email, feature_id, starred) is called.
SetStarCall ==
  \E p \in StarEmails, starred \in BOOLEAN :
    /\ procs[p].calls < MaxCalls
    /\ StarStep(p, "idle", [procs[p] EXCEPT !.pc = "get_star",
                                            !.starred = starred,
                                            !.calls = @ + 1])
    /\ UNCHANGED <<datastore, star_count>>

\* feature_star = self.get_star(email, feature_id), and the branch taken
\* on it.
SetStarGetStar ==
  \E p \in StarEmails :
    LET i == get_star(datastore.feature_stars, p, FeatureId)
        branch == StarWrite(datastore.feature_stars, i, procs[p].starred)
    IN /\ StarStep(p, "get_star",
                   [procs[p] EXCEPT !.pc = IF branch = "return" THEN "idle"
                                           ELSE "put_star",
                                    !.feature_star = i, !.branch = branch])
       /\ UNCHANGED <<datastore, star_count>>

\* feature_star.put()
SetStarPutStar ==
  \E p \in StarEmails :
    /\ StarStep(p, "put_star", [procs[p] EXCEPT !.pc = "get_entry"])
    /\ datastore' =
         [datastore EXCEPT !.feature_stars =
            IF procs[p].branch = "create"
            THEN Append(@, [email |-> p, feature_id |-> FeatureId,
                            starred |-> TRUE])
            ELSE [@ EXCEPT ![procs[p].feature_star].starred =
                              procs[p].starred]]
    /\ UNCHANGED star_count

\* feature_entry = FeatureEntry.get_by_id(feature_id);
\* feature_entry.star_count += 1 if starred else -1
SetStarGetEntry ==
  \E p \in StarEmails :
    /\ StarStep(p, "get_entry",
                [procs[p] EXCEPT !.pc = "put_entry",
                                 !.star_count =
                                   star_count[FeatureId]
                                   + (IF procs[p].starred THEN 1 ELSE -1)])
    /\ UNCHANGED <<datastore, star_count>>

\* The count that would be negative is logged; feature_entry.put()
SetStarPutEntry ==
  \E p \in StarEmails :
    /\ StarStep(p, "put_entry", [procs[p] EXCEPT !.pc = "idle"])
    /\ star_count' = IF procs[p].star_count < 0 THEN star_count
                     ELSE [star_count EXCEPT ![FeatureId] =
                                               procs[p].star_count]
    /\ UNCHANGED datastore

NextConcurrent ==
  \/ SetStarCall
  \/ SetStarGetStar
  \/ SetStarPutStar
  \/ SetStarGetEntry
  \/ SetStarPutEntry

SpecSetStarConcurrent == InitSetStar /\ [][NextConcurrent]_vars

(* =============================== claims =============================== *)
FEATURE_CHANGES == "make_feature_changes_email"
REVIEW_REQUESTS == "make_review_requests_email"
REVIEW_ASSIGNMENT == "make_review_assignment_email"
NEW_COMMENTS == "make_new_comments_email"

\* The reasons a task's footer lists, as a set and as the list of its
\* <li> lines.
ReasonItems(task) ==
  SelectSeq(task.html.footer, LAMBDA l : l.tag = "li")
RenderedReasons(task) ==
  {ReasonItems(task)[i].text : i \in 1..Len(ReasonItems(task))}
TaskFor(addr) == {i \in 1..Len(tasks) : tasks[i].to = addr}

\* The pairs <<address, reason>> each category or rule contributes.
Pairs(addr_list, reason) == {<<a, reason>> : a \in Range(addr_list)}

CoreContributions(fe) ==
  Pairs(fe.owner_emails, OWNER_REASON)
  \cup Pairs(fe.editor_emails, EDITOR_REASON)
  \cup Pairs(fe.cc_emails, CC_REASON)
  \cup Pairs(fe.devrel_emails, DEVREL_REASON)

ComponentContributions(d) ==
  UNION {Pairs(d.components[n].owners, COMPONENT_OWNER_REASON)
         \cup Pairs(d.components[n].subscribers, COMPONENT_SUBSCRIBER_REASON) :
         n \in Range(d.fe.blink_components) \cap DOMAIN d.components}

StarrerContributions(d) ==
  {<<st.email, STARRER_REASON>> :
     st \in {x \in Range(d.feature_stars) :
               /\ x.feature_id = d.fe.id
               /\ x.starred
               /\ PrefOf(d.user_prefs, x.email).notify_as_starrer
               /\ ~PrefOf(d.user_prefs, x.email).bounced}}

RuleContributions(rr) ==
  UNION {Pairs(rr[i][2], rr[i][1]) : i \in 1..Len(rr)}

ReviewerContributions(d, gate_type) ==
  IF d.gates[gate_type].exists /\ d.gates[gate_type].assignee_emails # <<>>
  THEN Pairs(d.gates[gate_type].assignee_emails, ASSIGNED_REASON)
  ELSE Pairs(d.approvers[gate_type], REVIEWER_REASON)

Contributions ==
  CASE call.fn = FEATURE_CHANGES ->
         CoreContributions(datastore.fe)
         \cup Pairs(datastore.watchers, WATCHER_REASON)
         \cup ComponentContributions(datastore)
         \cup StarrerContributions(datastore)
         \cup RuleContributions(rule_results)
    [] call.fn = REVIEW_REQUESTS ->
         ReviewerContributions(datastore, call.gate_type)
    [] call.fn = REVIEW_ASSIGNMENT ->
         Pairs(call.old_assignees, OLD_ASSIGNEE_REASON)
         \cup Pairs(call.new_assignees, NEW_ASSIGNEE_REASON)
    [] call.fn = NEW_COMMENTS ->
         CoreContributions(datastore.fe)
         \cup ReviewerContributions(datastore, call.gate_type)
    [] OTHER -> {}

ReasonsContributedTo(addr) == {p[2] : p \in {x \in Contributions : x[1] = addr}}

\* C1: in every make_*_email call each task has at least one reason, the
\* reasons in its footer are exactly those the categories and rules
\* contributed for its address, and the addresses with a task are exactly
\* the addresses some category or rule contributed.
C1_ReasonsAreTheContributions ==
  call # NoCall =>
    /\ raised = None
    /\ \A i \in 1..Len(tasks) :
         /\ RenderedReasons(tasks[i]) # {}
         /\ RenderedReasons(tasks[i]) = ReasonsContributedTo(tasks[i].to)
    /\ {tasks[i].to : i \in 1..Len(tasks)} = {p[1] : p \in Contributions}

C1_Witness ==
  /\ call.fn = FEATURE_CHANGES
  /\ Len(tasks) >= 2
  /\ \E i \in 1..Len(tasks) : Cardinality(RenderedReasons(tasks[i])) >= 2
  /\ \E a \in AllAddrs : TaskFor(a) = {}

\* C2: convert_reasons_to_task called with an empty reasons list raises
\* AssertionError and returns no task.
C2_EmptyReasonsRaise ==
  (unit_call.fn = "convert_reasons_to_task" /\ unit_call.reasons = <<>>) =>
    (unit_raised = "AssertionError" /\ unit_task = <<>>)

C2_Witness ==
  /\ unit_call.fn = "convert_reasons_to_task"
  /\ unit_call.reasons = <<>>
  /\ unit_call.addr \in datastore.creators
  /\ unit_raised = "AssertionError"

\* The sequence of n copies of x.
Repeat(x, n) == [i \in 1..n |-> x]

\* C3: accumulate_reasons appends the reason once per occurrence of an
\* address in the list, after the reasons the address already had, creates
\* the missing entries, leaves the other entries as they were, and leaves
\* the table unchanged for an empty list.
C3_AccumulateAppends ==
  unit_call.fn = "accumulate_reasons" =>
    LET before == unit_call.addr_reasons
        addr_list == unit_call.addr_list
    IN /\ \A a \in AllAddrs :
            Get(table, a) =
              Get(before, a) \o Repeat(unit_call.reason, Count(addr_list, a))
       /\ Keys(table) = Keys(before) \cup Range(addr_list)
       /\ Len(table) = Cardinality(Keys(table))
       /\ SubSeq(table, 1, Len(before)) =
            [i \in 1..Len(before) |->
               <<before[i][1], Get(table, before[i][1])>>]
       /\ \A i \in 1..Len(before) :
            before[i][1] \notin Range(addr_list) => table[i] = before[i]
       /\ addr_list = <<>> => table = before

C3_Witness ==
  /\ unit_call.fn = "accumulate_reasons"
  /\ \E a \in Range(unit_call.addr_list) :
       /\ HasKey(unit_call.addr_reasons, a)
       /\ unit_call.reason \in Range(Get(unit_call.addr_reasons, a))
       /\ Len(Get(table, a)) >= 2
  /\ Len(table) > Len(unit_call.addr_reasons)

\* C4: the task list of one event has one task per recipient address and
\* is in ascending order of the recipient addresses.
C4_OneTaskPerAddressSorted ==
  /\ \A i, j \in 1..Len(tasks) : tasks[i].to = tasks[j].to => i = j
  /\ \A i \in 1..Len(tasks) - 1 :
       StrLess(AddrOrder, tasks[i].to, tasks[i + 1].to)

\* owner_1 is an owner twice; iwa-dev joins the table after owner_1 and
\* gets the first task.
C4_Witness ==
  /\ call.fn = FEATURE_CHANGES
  /\ datastore.fe.owner_emails =
       <<"owner_1@example.com", "owner_1@example.com">>
  /\ datastore.fe.category = IWA
  /\ Len(tasks) = 2
  /\ tasks[1].to = "iwa-dev@chromium.org"
  /\ tasks[2].to = "owner_1@example.com"

\* C5: the footer of a task lists every distinct reason of the recipient
\* once, in ascending alphabetical order.
C5_FooterSortedDistinct ==
  \A i \in 1..Len(unit_task) :
    LET items == ReasonItems(unit_task[i])
    IN /\ {items[k].text : k \in 1..Len(items)} = Range(unit_call.reasons)
       /\ \A k \in 1..Len(items) - 1 :
            StrLess(ReasonOrder, items[k].text, items[k + 1].text)

C5_Witness ==
  /\ unit_task # <<>>
  /\ unit_call.reasons = <<OWNER_REASON, CC_REASON, OWNER_REASON>>

\* C6: reply_to of a task is the triggering user's address when the
\* recipient may create features, and None otherwise.
C6_ReplyTo ==
  \A i \in 1..Len(unit_task) :
    /\ unit_task[i].to = unit_call.addr
    /\ unit_call.addr \in datastore.creators =>
         unit_task[i].reply_to = unit_call.triggering_user_email
    /\ unit_call.addr \notin datastore.creators =>
         unit_task[i].reply_to = None

C6_Witness ==
  /\ unit_task # <<>>
  /\ unit_call.addr \in datastore.creators
  /\ unit_task[1].reply_to = "editor1@gmail.com"
  /\ datastore.creators # AllAddrs

RuleReasons == {rule_results[i][1] : i \in 1..Len(rule_results)}

C8_IwaRule ==
  call.fn = FEATURE_CHANGES =>
    /\ datastore.fe.category = IWA =>
         /\ <<IWA_RULE_REASON, IWA_RULE_ADDRS_INIT>> \in Range(rule_results)
         /\ Cardinality({i \in 1..Len(rule_results) :
                           rule_results[i][1] = IWA_RULE_REASON}) = 1
    /\ datastore.fe.category # IWA => IWA_RULE_REASON \notin RuleReasons

C8_Witness ==
  /\ call.fn = FEATURE_CHANGES
  /\ datastore.fe.category = IWA
  /\ datastore.fe.feature_type = FEATURE_TYPE_EXISTING_ID
  /\ call.changes = <<>>
  /\ IWA_RULE_REASON \in RuleReasons

\* The shipping stages of the feature, and whether one of them has an
\* android-first or a webview-first milestone.
FeatureShipStages ==
  StagesOfType(datastore.stages, datastore.fe.id,
               ShippingStageType(datastore.fe.feature_type))
HasAndroidFirst ==
  \E i \in 1..Len(FeatureShipStages) :
    /\ FeatureShipStages[i].milestones.present
    /\ FeatureShipStages[i].milestones.android_first # 0
HasWebviewFirst ==
  \E i \in 1..Len(FeatureShipStages) :
    /\ FeatureShipStages[i].milestones.present
    /\ FeatureShipStages[i].milestones.webview_first # 0

\* C9: for a feature with an android-first milestone and no webview-first
\* milestone, apply_subscription_rules returns the webview rule exactly
\* when shipped_android_milestone is among the changed fields; for any
\* other feature it never returns the webview rule.
C9_WebviewRule ==
  call.fn = FEATURE_CHANGES =>
    IF HasAndroidFirst /\ ~HasWebviewFirst
    THEN (<<WEBVIEW_RULE_REASON, WEBVIEW_RULE_ADDRS_INIT>>
            \in Range(rule_results))
         <=> (SHIPPED_ANDROID_MILESTONE \in ChangedFieldNames(call.changes))
    ELSE WEBVIEW_RULE_REASON \notin RuleReasons

\* C10: a feature that matches both rules gets both reasons from
\* apply_subscription_rules, and every address of a rule that matched has
\* one task, which carries that rule's reason and the reasons of every
\* category the address is in.
C10_RulesAccumulate ==
  call.fn = FEATURE_CHANGES =>
    /\ (IwaRuleMatches(datastore.fe)
        /\ WebviewRuleMatches(datastore, datastore.fe, call.changes))
       => RuleReasons = {IWA_RULE_REASON, WEBVIEW_RULE_REASON}
    /\ \A i \in 1..Len(rule_results) :
         \A a \in Range(rule_results[i][2]) :
           /\ Cardinality(TaskFor(a)) = 1
           /\ \A k \in TaskFor(a) :
                RenderedReasons(tasks[k]) =
                  {rule_results[i][1]}
                  \cup {p[2] : p \in {x \in CoreContributions(datastore.fe)
                                        \cup Pairs(datastore.watchers,
                                                   WATCHER_REASON)
                                        \cup ComponentContributions(datastore)
                                        \cup StarrerContributions(datastore) :
                                      x[1] = a}}

C10_Witness ==
  /\ call.fn = FEATURE_CHANGES
  /\ RuleReasons = {IWA_RULE_REASON, WEBVIEW_RULE_REASON}
  /\ Len(tasks) = 3
  /\ ~repeated

\* The datastore with the feature's blink component names that resolve
\* to no component taken off the feature.
FoundComponentsOnly(d) ==
  [d EXCEPT !.fe.blink_components =
     SelectSeq(@, LAMBDA n : n \in DOMAIN d.components)]

\* C13: when a blink component name of the feature resolves to no
\* component, make_feature_changes_email does not fail and returns the
\* tasks it returns for the feature without that name: the other
\* components and categories contribute as before.
C13_MissingComponentSkipped ==
  (/\ call.fn = FEATURE_CHANGES
   /\ \E n \in Range(datastore.fe.blink_components) :
        n \notin DOMAIN datastore.components) =>
    /\ raised = None
    /\ tasks = make_feature_changes_email(
                 FoundComponentsOnly(datastore), call.is_update,
                 call.changes, IWA_RULE_ADDRS, WEBVIEW_RULE_ADDRS)
    /\ \A a \in Range(datastore.fe.owner_emails) : TaskFor(a) # {}

C13_Witness ==
  /\ call.fn = FEATURE_CHANGES
  /\ datastore.fe.blink_components = <<"Gone", "Blink">>
  /\ datastore.components["Blink"].owners = <<"iwa-dev@chromium.org">>
  /\ \E i \in 1..Len(tasks) :
       /\ tasks[i].to = "iwa-dev@chromium.org"
       /\ RenderedReasons(tasks[i]) = {COMPONENT_OWNER_REASON}

\* The recipients of the tasks.
Recipients == {tasks[i].to : i \in 1..Len(tasks)}

\* C16: a review request goes to the assignees of the gate, each with the
\* reason ASSIGNED_REASON only, when the gate exists and has assignees, and
\* otherwise to the approvers of the gate type, each with the reason
\* REVIEWER_REASON only.
C16_ReviewRequestRecipients ==
  call.fn = REVIEW_REQUESTS =>
    LET gate == datastore.gates[call.gate_type]
    IN IF gate.exists /\ Len(gate.assignee_emails) >= 1
       THEN /\ Recipients = Range(gate.assignee_emails)
            /\ \A i \in 1..Len(tasks) :
                 RenderedReasons(tasks[i]) = {ASSIGNED_REASON}
       ELSE /\ Recipients = Range(datastore.approvers[call.gate_type])
            /\ \A i \in 1..Len(tasks) :
                 RenderedReasons(tasks[i]) = {REVIEWER_REASON}

C16_Witness ==
  /\ call.fn = REVIEW_REQUESTS
  /\ datastore.gates[call.gate_type].assignee_emails =
       <<"owner_1@example.com">>
  /\ datastore.approvers[call.gate_type] = <<"iwa-dev@chromium.org">>
  /\ Recipients = {"owner_1@example.com"}

\* C17: a new-comment event goes to the owners, editors, CC'd addresses
\* and devrel contacts of the feature and to the reviewers of the gate, and
\* to nobody else; no task carries a watcher, component, starrer or rule
\* reason.
C17_NewCommentRecipients ==
  call.fn = NEW_COMMENTS =>
    LET fe == datastore.fe
        gate == datastore.gates[call.gate_type]
        reviewers == IF gate.exists /\ gate.assignee_emails # <<>>
                     THEN Range(gate.assignee_emails)
                     ELSE Range(datastore.approvers[call.gate_type])
    IN /\ Recipients = Range(fe.owner_emails) \cup Range(fe.editor_emails)
                         \cup Range(fe.cc_emails) \cup Range(fe.devrel_emails)
                         \cup reviewers
       /\ \A i \in 1..Len(tasks) :
            RenderedReasons(tasks[i]) \cap
              {WATCHER_REASON, COMPONENT_OWNER_REASON,
               COMPONENT_SUBSCRIBER_REASON, STARRER_REASON,
               IWA_RULE_REASON, WEBVIEW_RULE_REASON} = {}

C17_Witness ==
  /\ call.fn = NEW_COMMENTS
  /\ datastore.watchers = <<"iwa-dev@chromium.org">>
  /\ TaskFor("iwa-dev@chromium.org") = {}
  /\ \E i \in 1..Len(tasks) : REVIEWER_REASON \in RenderedReasons(tasks[i])

\* The addresses with a FeatureStar on the feature that has starred = True,
\* a UserPref (or the default one) with notify_as_starrer, and no bounce.
WantsStarrerMail(a) ==
  /\ \E i \in 1..Len(datastore.feature_stars) :
       /\ datastore.feature_stars[i].email = a
       /\ datastore.feature_stars[i].feature_id = datastore.fe.id
       /\ datastore.feature_stars[i].starred
  /\ PrefOf(datastore.user_prefs, a).notify_as_starrer
  /\ ~PrefOf(datastore.user_prefs, a).bounced

\* C18: a task carries STARRER_REASON exactly when its recipient has a
\* star with starred = True on the feature, has notify_as_starrer set and
\* has not bounced; a user who unstarred or opted out and is in no other
\* category gets no task.
C18_StarrersNotified ==
  call.fn = FEATURE_CHANGES =>
    /\ \A i \in 1..Len(tasks) :
         STARRER_REASON \in RenderedReasons(tasks[i])
           <=> WantsStarrerMail(tasks[i].to)
    /\ \A a \in AllAddrs : WantsStarrerMail(a) => TaskFor(a) # {}
    /\ \A a \in AllAddrs :
         (/\ ~WantsStarrerMail(a)
          /\ \A p \in Contributions : p[1] = a => p[2] = STARRER_REASON)
         => TaskFor(a) = {}

C18_Witness ==
  /\ call.fn = FEATURE_CHANGES
  /\ \E i \in 1..Len(datastore.feature_stars) :
       /\ datastore.feature_stars[i].email = "iwa-dev@chromium.org"
       /\ datastore.feature_stars[i].starred
  /\ ~PrefOf(datastore.user_prefs, "iwa-dev@chromium.org").notify_as_starrer
  /\ TaskFor("iwa-dev@chromium.org") = {}

\* The subject and the triggering user the claim gives each event type.
SubjectPrefix ==
  CASE call.fn = FEATURE_CHANGES ->
         IF call.is_update THEN "updated feature: " ELSE "new feature: "
    [] call.fn = REVIEW_REQUESTS -> "Review Request for feature: "
    [] call.fn = REVIEW_ASSIGNMENT -> "Review assigned for feature: "
    [] call.fn = NEW_COMMENTS -> "New comments for feature: "

\* C19: every task of an event has the subject of the event type followed
\* by the feature name, the tasks of an event have the same body, and the
\* triggering user (the reply_to of the recipients who may create
\* features) is the creator for a creation and the updater for an update.
C19_SubjectPerEventType ==
  call # NoCall =>
    \A i \in 1..Len(tasks) :
      /\ tasks[i].subject = <<SubjectPrefix, datastore.fe.name>>
      /\ tasks[i].html.body = tasks[1].html.body
      /\ (call.fn = FEATURE_CHANGES /\ tasks[i].to \in datastore.creators) =>
           tasks[i].reply_to = IF call.is_update
                               THEN datastore.fe.updater_email
                               ELSE datastore.fe.creator_email

C19_Witness ==
  /\ call.fn = FEATURE_CHANGES
  /\ call.is_update
  /\ Len(tasks) >= 2
  /\ \E i \in 1..Len(tasks) : tasks[i].reply_to = "editor1@gmail.com"
  /\ \E i \in 1..Len(tasks) : tasks[i].reply_to = None

\* The stars with starred = True a feature has, and whether a user has one.
StarredRecords(feature_stars, feature_id) ==
  {i \in 1..Len(feature_stars) :
     feature_stars[i].feature_id = feature_id /\ feature_stars[i].starred}
HasStarred(feature_stars, email, feature_id) ==
  \E i \in StarredRecords(feature_stars, feature_id) :
    feature_stars[i].email = email

\* C20: after every set_star call of a sequence started with count and
\* records in agreement, star_count of each feature is the number of its
\* stars with starred = True and is not negative; the call that stars a
\* feature the user had not starred adds one, the call that unstars a
\* starred feature subtracts one, and any other call leaves the records
\* and the counts as they were.
C20_StarCountMatchesStars ==
  /\ \A f \in StarFeatureIds :
       /\ star_count[f] = Cardinality(StarredRecords(datastore.feature_stars, f))
       /\ star_count[f] >= 0
  /\ star_call # NoCall =>
       LET had == HasStarred(star_call.feature_stars, star_call.email,
                             star_call.feature_id)
           f == star_call.feature_id
       IN /\ (star_call.starred /\ ~had) =>
               star_count[f] = star_call.star_count[f] + 1
          /\ (~star_call.starred /\ had) =>
               star_count[f] = star_call.star_count[f] - 1
          /\ (star_call.starred <=> had) =>
               /\ star_count = star_call.star_count
               /\ datastore.feature_stars = star_call.feature_stars
          /\ \A g \in StarFeatureIds \ {f} :
               star_count[g] = star_call.star_count[g]

\* A re-star: the user had unstarred the feature and stars it again.
C20_Witness ==
  /\ star_call # NoCall
  /\ star_call.starred
  /\ get_star(star_call.feature_stars, star_call.email,
              star_call.feature_id) # 0
  /\ ~HasStarred(star_call.feature_stars, star_call.email,
                 star_call.feature_id)
  /\ star_count[star_call.feature_id] = 2

\* The queue entries send_emails adds for a list of tasks.
Enqueued(email_tasks) ==
  [i \in 1..Len(email_tasks) |->
     [url |-> OUTBOUND_EMAIL_URL, params |-> email_tasks[i]]]

\* C11: in every run, send_emails appends each task of its list once, in
\* list order, to the queue of /tasks/outbound-email and logs nothing when
\* SEND_EMAIL is on, and leaves the queue alone and logs each task when
\* SEND_EMAIL is off; a run that does not call send_emails changes neither.
C11_EachTaskEnqueuedOnce ==
  [][IF handler'.called
     THEN IF SEND_EMAIL
          THEN /\ queue' = queue \o Enqueued(handler'.email_tasks)
               /\ logged' = logged
          ELSE /\ queue' = queue
               /\ Len(logged') = Len(logged) + Len(handler'.email_tasks)
               /\ \A i \in 1..Len(handler'.email_tasks) :
                    logged'[Len(logged) + i].to = handler'.email_tasks[i].to
     ELSE queue' = queue /\ logged' = logged]_vars

C11_Witness ==
  /\ SEND_EMAIL
  /\ handler # NoCall
  /\ handler.called
  /\ Len(handler.email_tasks) = 3
  /\ Len(queue) = 4
  /\ queue[2].params.to = "iwa-dev@chromium.org"
  /\ queue[4].params.to = "webview-leads-external@google.com"

\* C12: every task enqueued for /tasks/outbound-email has the fields to,
\* subject, reply_to and html.
C12_OutboundTaskFields ==
  \A i \in 1..Len(queue) :
    queue[i].url = OUTBOUND_EMAIL_URL =>
      {"to", "subject", "reply_to", "html"} \subseteq DOMAIN queue[i].params

\* C14: post_comment_to_mailing_list raises ValueError and neither
\* enqueues nor logs an email when the gate id finds no gate or the stage
\* id of the gate finds no stage.
C14_NoStageRaises ==
  [][(/\ handler'.name = "post_comment_to_mailing_list"
      /\ \/ handler'.args.gate_id \notin DOMAIN GATE_BY_ID
         \/ GATE_BY_ID[handler'.args.gate_id].stage_id
              \notin DOMAIN STAGE_BY_ID)
     => (/\ handler'.raised = "ValueError"
         /\ ~handler'.called
         /\ queue' = queue
         /\ logged' = logged)]_vars

\* The gate is found and its stage is not, after an email was enqueued.
C14_Witness ==
  /\ handler # NoCall
  /\ handler.name = "post_comment_to_mailing_list"
  /\ handler.args.gate_id \in DOMAIN GATE_BY_ID
  /\ handler.raised = "ValueError"
  /\ Len(queue) = 1

\* The tasks of the call c made over the datastore d with the module-level
\* rule lists as the module defines them and a table of its own.
FreshTasks(d, c) ==
  CASE c.fn = FEATURE_CHANGES ->
         make_feature_changes_email(d, c.is_update, c.changes,
                                    IWA_RULE_ADDRS_INIT,
                                    WEBVIEW_RULE_ADDRS_INIT)
    [] c.fn = REVIEW_REQUESTS ->
         make_review_requests_email(d, c.gate_type, c.changes)
    [] c.fn = REVIEW_ASSIGNMENT ->
         make_review_assignment_email(d, c.gate_type,
                                      c.triggering_user_email,
                                      c.old_assignees, c.new_assignees)
    [] c.fn = NEW_COMMENTS ->
         make_new_comments_email(d, c.gate_type, c.changes)

\* C15: after any sequence of events the two module-level rule address
\* lists are as the module defines them, and the tasks of the last event
\* are those its arguments and the datastore give: they hold no address
\* and no reason of an earlier event.
C15_NoStateAcrossEvents ==
  /\ IWA_RULE_ADDRS = IWA_RULE_ADDRS_INIT
  /\ WEBVIEW_RULE_ADDRS = WEBVIEW_RULE_ADDRS_INIT
  /\ call # NoCall =>
       /\ tasks = FreshTasks(datastore, call)
       /\ Recipients = {p[1] : p \in Contributions}

\* A review assignment to owner_1 after a feature change that matched the
\* IWA rule.
C15_Witness ==
  /\ call.fn = REVIEW_ASSIGNMENT
  /\ Recipients = {"owner_1@example.com"}
  /\ Len(queue) = 2
  /\ queue[1].params.to = "iwa-dev@chromium.org"
  /\ IWA_RULE_REASON \in RenderedReasons(queue[1].params)

\* The features the last set_star call of a user on them starred.
CurrentlyStarred(email) ==
  IF email \in StarEmails
  THEN {f \in StarFeatureIds : star_history[email][f] = "starred"}
  ELSE {}

\* C21: after any sequence of set_star calls, get_user_stars(email) returns
\* the ids of the features whose last set_star call by that user starred
\* them, each once, in descending order of id; a feature the user unstarred
\* or only another user starred is not among them, and a user with no
\* stars gets the empty list.
C21_UserStars ==
  user_stars # NoCall =>
    LET ids == user_stars.feature_ids
    IN /\ Range(ids) = CurrentlyStarred(user_stars.email)
       /\ Len(ids) = Cardinality(CurrentlyStarred(user_stars.email))
       /\ \A i \in 1..Len(ids) : \A j \in (i + 1)..Len(ids) : ids[i] > ids[j]

\* user5 starred the feature of the smaller id first, and user2 starred one
\* feature and unstarred the other.
C21_Witness ==
  /\ user_stars # NoCall
  /\ user_stars.email = "user5@example.com"
  /\ user_stars.feature_ids = <<FeatureId + 1, FeatureId>>
  /\ get_star(datastore.feature_stars, "user5@example.com", FeatureId)
       < get_star(datastore.feature_stars, "user5@example.com", FeatureId + 1)
  /\ star_history["user2@example.com"][FeatureId] = "unstarred"
  /\ HasStarred(datastore.feature_stars, "user2@example.com", FeatureId + 1)
  /\ get_star(datastore.feature_stars, "user2@example.com", FeatureId) # 0

\* The later of the creation date and the last visit of a user, the last
\* visit of a user with none recorded being 2022-08-01.
EffectiveLastVisit(user) ==
  LET visit == IF user.last_visit = <<>> THEN Date(2022, 8, 1)
               ELSE user.last_visit[1]
  IN IF user.created >= visit THEN user.created ELSE visit
TaskAddrs(email_tasks) == {email_tasks[i].to : i \in 1..Len(email_tasks)}

\* C22: a run of the inactive-user handler at now makes inactivity tasks
\* for exactly the users who, before the run, are not admins, not site
\* editors, not flagged notified_inactive, and whose effective last visit
\* is earlier than now minus 180 days; each gets one task.
C22_InactiveUsersNotified ==
  [][LET wanted == {i \in 1..Len(app_users) :
                      /\ ~app_users[i].is_admin
                      /\ ~app_users[i].is_site_editor
                      /\ ~app_users[i].notified_inactive
                      /\ EffectiveLastVisit(app_users[i])
                           < handler'.args.now - 180}
     IN /\ TaskAddrs(handler'.email_tasks)
             = {app_users[i].email : i \in wanted}
        /\ Len(handler'.email_tasks) = Cardinality(wanted)
        /\ handler'.message[1] = Cardinality(wanted)]_vars

\* The run of the test: of the users stored by setUp only inactive_user is
\* notified, and new_user, created a month before and with no visit, is
\* not.
C22_Witness ==
  /\ handler # NoCall
  /\ handler.args.now = Date(2023, 9, 1)
  /\ Len(app_users) = Len(TEST_APP_USERS)
  /\ TaskAddrs(handler.email_tasks) = {"inactive_user@example.com"}
  /\ app_users[3].email = "new_user@example.com"
  /\ ~app_users[3].notified_inactive
  /\ handler.message = <<1, " users notified of inactivity.",
                         "Notified users:", "inactive_user@example.com">>

Flagged(users) ==
  {users[i].email : i \in {j \in 1..Len(users) : users[j].notified_inactive}}

\* C23: in every run of the inactive-user handler the users newly flagged
\* notified_inactive are the addresses of the tasks of the run, a user
\* flagged before the run stays flagged and gets no task, and over all the
\* runs no address has more than one inactivity email enqueued.
C23_AtMostOneInactivityEmail ==
  [][/\ Flagged(app_users') \ Flagged(app_users)
          = TaskAddrs(handler'.email_tasks)
     /\ Flagged(app_users) \subseteq Flagged(app_users')
     /\ TaskAddrs(handler'.email_tasks) \cap Flagged(app_users) = {}
     /\ \A i \in 1..Len(queue') : \A j \in 1..Len(queue') :
          queue'[i].params.to = queue'[j].params.to => i = j]_vars

\* A second, later run notifies a second user and not again the user the
\* first run notified, who has not visited since.
C23_Witness ==
  /\ Len(queue) = 2
  /\ Len(app_users) = 2
  /\ queue[1].params.to = app_users[1].email
  /\ queue[2].params.to = app_users[2].email
  /\ handler # NoCall
  /\ handler.args.now = Date(2024, 3, 1)
  /\ Len(handler.email_tasks) = 1
  /\ app_users[1].notified_inactive
  /\ app_users[1].last_visit = <<Date(2023, 2, 20)>>

\* C26: the tasks of a review-assignment event are one for each address of
\* the old or the new assignees and none for any other address; the task
\* of an address names 'The review was previously assigned to you' exactly
\* when the address is an old assignee and 'The review is now assigned to
\* you' exactly when it is a new one; an approver of the gate type who is
\* not an assignee gets no task, and with both lists empty no task is made.
C26_AssignmentRecipients ==
  call.fn = REVIEW_ASSIGNMENT =>
    LET old == Range(call.old_assignees)
        new == Range(call.new_assignees)
    IN /\ raised = None
       /\ Recipients = old \cup new
       /\ Len(tasks) = Cardinality(old \cup new)
       /\ \A i \in 1..Len(tasks) :
            RenderedReasons(tasks[i])
              = (IF tasks[i].to \in old THEN {OLD_ASSIGNEE_REASON} ELSE {})
                \cup (IF tasks[i].to \in new THEN {NEW_ASSIGNEE_REASON}
                      ELSE {})
       /\ \A a \in Range(datastore.approvers[call.gate_type]) \ (old \cup new) :
            TaskFor(a) = {}
       /\ (old \cup new = {}) => tasks = <<>>

\* One address is the old and the new assignee, and another address, an
\* approver of the gate type, is neither.
C26_Witness ==
  /\ call.fn = REVIEW_ASSIGNMENT
  /\ call.old_assignees = <<"owner_1@example.com">>
  /\ call.new_assignees = <<"owner_1@example.com">>
  /\ "iwa-dev@chromium.org" \in Range(datastore.approvers[call.gate_type])
  /\ Len(tasks) = 1
  /\ RenderedReasons(tasks[1]) = {OLD_ASSIGNEE_REASON, NEW_ASSIGNEE_REASON}

\* The changed fields whose new value differs from the old one, those of a
\* null old value and a falsy new value left out.
AmendedFields(changed_fields) ==
  {i \in 1..Len(changed_fields) :
     /\ ~PyEq(changed_fields[i].new_val, changed_fields[i].old_val)
     /\ ~(changed_fields[i].old_val.t = "NoneType"
          /\ ~PyBool(changed_fields[i].new_val))}
LastOf(seq) == seq[Len(seq)]

\* C27: a call of notify_subscribers_and_save_amendments stores one
\* Activity, holding one amendment for each changed field whose new value
\* differs from its old value unless the old value is null and the new one
\* falsy, exactly when there is such a field, and enqueues one task for
\* /tasks/email-subscribers exactly when notify is true, whether or not an
\* Activity was stored.
C27_AmendmentsAndNotify ==
  [][handler'.name = "notify_subscribers_and_save_amendments" =>
       LET cf == handler'.args.changed_fields
           wanted == AmendedFields(cf)
       IN /\ IF wanted = {} THEN activities' = activities
             ELSE /\ Len(activities') = Len(activities) + 1
                  /\ SubSeq(activities', 1, Len(activities)) = activities
                  /\ Len(LastOf(activities').amendments) = Cardinality(wanted)
                  /\ {<<am.field_name, am.old_value, am.new_value>> :
                        am \in Range(LastOf(activities').amendments)}
                       = {<<cf[i].field, PyStr(cf[i].old_val),
                            PyStr(cf[i].new_val)>> : i \in wanted}
          /\ IF handler'.args.notify
             THEN /\ Len(queue') = Len(queue) + 1
                  /\ SubSeq(queue', 1, Len(queue)) = queue
                  /\ LastOf(queue').url = "/tasks/email-subscribers"
                  /\ LastOf(queue').params.is_update = handler'.args.is_update
             ELSE queue' = queue]_vars

\* The field went from null to 0: nothing is amended, no Activity is
\* stored, and the task is enqueued.
C27_Witness ==
  /\ handler # NoCall
  /\ handler.name = "notify_subscribers_and_save_amendments"
  /\ handler.args.notify
  /\ handler.args.changed_fields
       = <<ChangedField(SHIPPED_ANDROID_MILESTONE, PyNone, Py("int", 0))>>
  /\ activities = <<>>
  /\ Len(queue) = 1
  /\ queue[1].url = EMAIL_SUBSCRIBERS_URL
  /\ queue[1].params.changes = <<>>

\* C24: a run of the feature-change handler calls send_emails, with the
\* tasks of make_feature_changes_email, exactly when the feature is found
\* and the event is a creation or an update with a change list that is not
\* empty, and otherwise enqueues nothing; a call of
\* notify_subscribers_and_save_amendments with notify true in which no
\* field value changed enqueues one /tasks/email-subscribers task with an
\* empty change list all the same.
C24_EmailsOnlyForChanges ==
  [][/\ handler'.name = "FeatureChangeHandler" =>
          /\ handler'.called <=>
               /\ handler'.args.feature_id = datastore.fe.id
               /\ ~handler'.args.is_update \/ handler'.args.changes # <<>>
          /\ handler'.called =>
               /\ queue' = queue \o Enqueued(handler'.email_tasks)
               /\ handler'.email_tasks = tasks'
               /\ call'.fn = FEATURE_CHANGES
               /\ call'.is_update = handler'.args.is_update
          /\ ~handler'.called => queue' = queue /\ logged' = logged
     /\ (/\ handler'.name = "notify_subscribers_and_save_amendments"
         /\ handler'.args.notify
         /\ \A i \in 1..Len(handler'.args.changed_fields) :
              PyEq(handler'.args.changed_fields[i].new_val,
                   handler'.args.changed_fields[i].old_val))
        => /\ Len(queue') = Len(queue) + 1
           /\ LastOf(queue').url = "/tasks/email-subscribers"
           /\ LastOf(queue').params.changes = <<>>]_vars

\* The handler was posted the task of an update of a field from 88 to 88:
\* the task is the only one of the queue.
C24_Witness ==
  /\ handler # NoCall
  /\ handler.name = "FeatureChangeHandler"
  /\ handler.args.is_update
  /\ handler.args.changes = <<>>
  /\ handler.args.feature_id = datastore.fe.id
  /\ ~handler.called
  /\ Len(queue) = 1
  /\ queue[1].url = EMAIL_SUBSCRIBERS_URL
  /\ queue[1].params.is_update
  /\ activities = <<>>

\* C28: a call of send_ot_notification enqueues one task: for a stage of
\* an extension stage type, to /tasks/email-ot-extension-request with the
\* stage and the origin trial stage it extends, and for any other stage to
\* /tasks/email-ot-creation-request with the stage alone; the email of
\* either request handler is one task to the origin trials support address
\* with reply_to None.
C28_OtNotification ==
  [][/\ handler'.name = "send_ot_notification" =>
          LET stage == handler'.args.stage
              task == LastOf(queue')
          IN /\ Len(queue') = Len(queue) + 1
             /\ SubSeq(queue', 1, Len(queue)) = queue
             /\ task.params.stage = stage
             /\ IF stage.stage_type = STAGE_BLINK_EXTEND_ORIGIN_TRIAL
                THEN /\ task.url = "/tasks/email-ot-extension-request"
                     /\ DOMAIN task.params = {"stage", "ot_stage"}
                     /\ task.params.ot_stage.id = stage.ot_stage_id
                ELSE /\ task.url = "/tasks/email-ot-creation-request"
                     /\ DOMAIN task.params = {"stage"}
     /\ handler'.name \in {"OriginTrialCreationRequestHandler",
                           "OriginTrialExtensionRequestHandler"} =>
          /\ Len(handler'.email_tasks) = 1
          /\ handler'.email_tasks[1].to = "origin-trials-support@google.com"
          /\ handler'.email_tasks[1].reply_to = None
          /\ queue' = queue \o Enqueued(handler'.email_tasks)]_vars

\* The extension request was enqueued and its handler has made the email.
C28_Witness ==
  /\ handler # NoCall
  /\ handler.name = "OriginTrialExtensionRequestHandler"
  /\ Len(queue) = 2
  /\ queue[1].url = OT_EXTENSION_REQUEST_URL
  /\ queue[1].params.stage = EXTENSION_STAGE
  /\ queue[1].params.ot_stage = OT_STAGE
  /\ queue[2].url = OUTBOUND_EMAIL_URL
  /\ queue[2].params.to = OT_SUPPORT_EMAIL
  /\ queue[2].params.subject[2] = OT_STAGE.ot_display_name

FeatureEventHandlers ==
  {"FeatureChangeHandler", "FeatureReviewHandler", "ReviewAssignmentHandler",
   "FeatureCommentHandler"}

\* C25: a run of one of the four feature-event handlers whose payload
\* names a feature id that finds no feature entry builds no email task,
\* enqueues and logs nothing, raises nothing and returns the message
\* 'Done'.
C25_MissingFeatureDone ==
  [][(/\ handler'.name \in FeatureEventHandlers
      /\ handler'.args.feature_id # datastore.fe.id)
     => (/\ handler'.email_tasks = <<>>
         /\ ~handler'.called
         /\ queue' = queue
         /\ logged' = logged
         /\ handler'.raised = None
         /\ handler'.message = "Done")]_vars

\* The review of a feature that is not found was assigned, after an email
\* was enqueued.
C25_Witness ==
  /\ handler # NoCall
  /\ handler.name = "ReviewAssignmentHandler"
  /\ handler.args.feature_id = MISSING_FEATURE_ID
  /\ handler.args.new_assignees # <<>>
  /\ handler.message = "Done"
  /\ Len(queue) = 1

\* C29: the subject of a review comment posted to the mailing list is the
\* intent subject line of the stage when it has one and otherwise the
\* intent phrase of the feature type and approval field, ': ' and the
\* feature name, with 'Re: ' put in front unless it starts with 'Re: '
\* already, so that it starts with one 'Re: '; references is '<', the
\* unquoted message id and '>' when the stage has an intent thread URL
\* under one of the two archive prefixes, anchor and query string taken
\* off, and is null otherwise.
C29_CommentSubjectAndReferences ==
  [][(/\ handler'.name = "post_comment_to_mailing_list"
      /\ handler'.raised = None)
     => LET args == handler'.args
            stage == STAGE_BY_ID[GATE_BY_ID[args.gate_id].stage_id]
            phrase == IF args.approval_field_id = ShipApproval
                      THEN "Intent to Ship"
                      ELSE IF args.feature_type = FEATURE_TYPE_DEPRECATION_ID
                           THEN "Intent to Deprecate and Remove"
                           ELSE "Intent to Prototype"
            base == IF stage.intent_subject_line # <<>>
                    THEN stage.intent_subject_line[1]
                    ELSE <<phrase, ": ", datastore.fe.name>>
            task == handler'.email_tasks[1]
            url == stage.intent_thread_url
        IN /\ Len(handler'.email_tasks) = 1
           /\ task.subject[1] = "Re: "
           /\ task.subject[2] # "Re: "
           /\ task.subject = IF base[1] = "Re: " THEN base
                             ELSE <<"Re: ">> \o base
           /\ task.references =
                IF url = <<>> THEN <<>>
                ELSE IF url[1].prefix
                          = "https://groups.google.com/a/chromium.org/d/msgid/blink-dev/"
                     THEN <<"<", "123xxx=yyy@mail.gmail.com", ">">>
                     ELSE IF url[1].prefix
                               = "https://groups.google.com/d/msgid/jrobbins-test/"
                          THEN <<"<", "456xxx=yyy@mail.gmail.com", ">">>
                          ELSE <<>>]_vars

\* The stage has no subject line and a thread in the archive of the test
\* list; the feature is a deprecation.
C29_Witness ==
  /\ handler # NoCall
  /\ handler.name = "post_comment_to_mailing_list"
  /\ handler.raised = None
  /\ handler.args.gate_id = 16
  /\ handler.args.feature_type = FEATURE_TYPE_DEPRECATION_ID
  /\ handler.email_tasks[1].subject
       = <<"Re: ", "Intent to Deprecate and Remove", ": ", "feature one">>
  /\ handler.email_tasks[1].references
       = <<"<", "456xxx=yyy@mail.gmail.com", ">">>
  /\ LastOf(queue).params = handler.email_tasks[1]

\* C30: once every one of the interleaved set_star calls of the users on
\* the feature has completed, star_count of the feature is the number of
\* its stars with starred = True.
C30_NoLostUpdate ==
  (\A p \in StarEmails : procs[p].pc = "idle") =>
    star_count[FeatureId]
      = Cardinality(StarredRecords(datastore.feature_stars, FeatureId))

====
